---- MODULE Spec2Model ----
(***************************************************************************)
(* Model of the vg-js card game core: the Party game state, the action     *)
(* generator (ActionManager.js), the action applier (ActionApplier.js),    *)
(* the effect registry (EffectLibrary.js) and the console driver           *)
(* (index.js).                                                             *)
(*                                                                         *)
(* Conventions.  A card object is a number (its uniqueId), 0 is            *)
(* null/undefined.  The fields a card never changes are in CardDef, the    *)
(* fields the game writes (isResting, bonusPower, bonusCritical,           *)
(* isPublic) are in the state's "cards" map, so that two references to     *)
(* one card see the same values, as in the object graph cloneDeep copies.  *)
(* JavaScript arrays are sequences; array positions carried by actions     *)
(* are 0-based as in the source and shifted by one where they index a      *)
(* sequence.                                                               *)
(***************************************************************************)
EXTENDS Integers, Sequences, FiniteSets, TLC

VARIABLES party, pc, budget, rng, probe, engine

vars == <<party, pc, budget, rng, probe, engine>>

-----------------------------------------------------------------------------
(* Bounds of the exploration. *)

\* turns the driver plays before the exploration stops
MaxTurn == 2
\* the iterations a search is given the time for
IterationBound == 3
\* the last turn of the games that are played to the turn limit
LateTurn == 6
\* choices other than keeping the hand or passing that the two players take
\* in one game
MaxChoices == 2
\* the same, for the games whose states arbitrary actions are applied to
ProbeChoices == 1
\* choices of the longer games, in which rear-guards are called and attack
LongChoices == 3

-----------------------------------------------------------------------------
(* Values of the source. *)

Undef == "undefined"
NoNum == -1
StartHandSize == 5
TurnLimit == 6
DamageLimit == 6
TriggerPower == 10000
EnergyCharge == 3
EnergyBlast == 7

PlayerIdx == {0, 1}
FrontRowNames == <<"R1", "V", "R2">>
BackRowNames == <<"R3", "R4", "R5">>
CircleNames == {"V", "R1", "R2", "R3", "R4", "R5"}

-----------------------------------------------------------------------------
(* Sequence helpers standing for the Array methods the source uses. *)

Range(s) == {s[i] : i \in DOMAIN s}

\* Array.prototype.splice(i, 1) on position i (1-based); the remaining array
RemoveAt(s, i) == [k \in 1..(Len(s) - 1) |-> IF k < i THEN s[k] ELSE s[k + 1]]

\* Array.prototype.findIndex, 1-based, 0 when nothing matches
FindIndex(s, P(_)) ==
    IF \E i \in DOMAIN s : P(s[i])
    THEN CHOOSE i \in DOMAIN s : P(s[i]) /\ \A k \in 1..(i - 1) : ~P(s[k])
    ELSE 0

\* Array.prototype.filter
Filter(s, P(_)) ==
    LET f[i \in 0..Len(s)] ==
            IF i = 0 THEN <<>>
            ELSE IF P(s[i]) THEN Append(f[i - 1], s[i]) ELSE f[i - 1]
    IN f[Len(s)]

\* Array.prototype.reduce with +
SumSeq(s, F(_)) ==
    LET f[i \in 0..Len(s)] == IF i = 0 THEN 0 ELSE f[i - 1] + F(s[i])
    IN f[Len(s)]

RECURSIVE Flatten(_)
Flatten(ss) == IF ss = <<>> THEN <<>> ELSE Head(ss) \o Flatten(Tail(ss))

Swap(s, i, j) == [s EXCEPT ![i] = s[j], ![j] = s[i]]

RECURSIVE Pow2(_)
Pow2(n) == IF n = 0 THEN 1 ELSE 2 * Pow2(n - 1)

-----------------------------------------------------------------------------
(* The card database and the two deck lists.  Both players play the same   *)
(* list.  An effect definition is an entry of implemented_effects; zone "" *)
(* and cost 0 stand for an absent zone restriction and an absent cost.     *)

NoCond == [k |-> "none"]
Leaf(field, op, value) == [k |-> "leaf", field |-> field, op |-> op, value |-> value]

EffectDef(trigger, zone, condition, mandatory, isAct, once, cost, fi) ==
    [trigger |-> trigger, zone |-> zone, condition |-> condition,
     mandatory |-> mandatory, is_act |-> isAct, once_per_turn |-> once,
     cost |-> cost, function_index |-> fi]

\* [AUTO] when rode upon, if you went second, draw a card
EffOnRideDraw ==
    EffectDef("on_ride", "soul", Leaf("player.index", "===", 1), FALSE, FALSE, FALSE, 0, 0)
\* [AUTO] ride deck: when you ride, put this card into the crest zone
EffOnRideCrest ==
    EffectDef("on_ride", "rideDeck", NoCond, TRUE, FALSE, FALSE, 0, 1)
\* [AUTO] at the beginning of your ride phase, Energy-Charge 3
EffRidePhaseCharge ==
    EffectDef("on_ride_phase_start", "crestZone", NoCond, TRUE, FALSE, FALSE, 0, 2)
\* [ACT][1/Turn] Energy-Blast 7, draw a card
EffActDraw ==
    EffectDef("", "", NoCond, FALSE, TRUE, TRUE, EnergyBlast, 3)

CardRec(id, name, grade, power, critical, shield, skills, trigger, effects, drive) ==
    [id |-> id, name |-> name, grade |-> grade, power |-> power,
     critical |-> critical, shield |-> shield, skills |-> skills,
     trigger |-> trigger, effects |-> effects,
     drive |-> IF power = NoNum THEN 0 ELSE drive]

KindDef(kind) ==
    CASE kind = "SV" -> CardRec("SV", "Starter", 0, 6000, 1, 10000, {"Boost"}, "", <<EffOnRideDraw>>, 1)
      [] kind = "G1" -> CardRec("G1", "Rider", 1, 8000, 1, 5000, {"Boost"}, "", <<>>, 1)
      [] kind = "EG" -> CardRec("EG", "Energy Generator", NoNum, NoNum, 1, 0, {},
                                "", <<EffOnRideCrest, EffRidePhaseCharge, EffActDraw>>, 0)
      [] kind = "HT" -> CardRec("HT", "Healer", 0, 5000, 1, 15000, {"Boost"}, "Heal", <<>>, 1)
      [] kind = "BR" -> CardRec("BR", "Brawler", 3, 13000, 1, NoNum, {}, "", <<>>, 1)
      [] kind = "KN" -> CardRec("KN", "Knight", 1, 8000, 1, 5000,
                                {"Boost", "Intercept", "Sentinel"}, "", <<>>, 1)

\* the ride deck as parseDeck leaves it: ascending grade, the crest last
RideDeckKinds == <<"SV", "G1", "EG">>
\* the main deck in deck-file order
MainDeckKinds == <<"KN", "HT", "KN", "HT", "KN", "HT", "KN", "HT", "BR">>

DeckKinds == RideDeckKinds \o MainDeckKinds
CardsPerPlayer == Len(DeckKinds)
CardIds == 1..(2 * CardsPerPlayer)

CardDef(c) == KindDef(DeckKinds[((c - 1) % CardsPerPlayer) + 1])
CardOf(p, k) == p * CardsPerPlayer + k

\* the fields the Card constructor initialises and the game later writes
NewCardState == [isResting |-> FALSE, bonusPower |-> 0, bonusCritical |-> 0, isPublic |-> FALSE]

\* null + n is n in JavaScript
Num(x) == IF x = NoNum THEN 0 ELSE x

-----------------------------------------------------------------------------
(* Party: constructor and structural accessors. *)

EmptyBoard == [n \in CircleNames |-> 0]

createPlayerState(p) ==
    [deck |-> [i \in 1..Len(MainDeckKinds) |-> CardOf(p, Len(RideDeckKinds) + i)],
     rideDeck |-> [i \in 1..(Len(RideDeckKinds) - 1) |-> CardOf(p, i + 1)],
     board |-> [EmptyBoard EXCEPT !["V"] = CardOf(p, 1)],
     hand |-> <<>>, dropZone |-> <<>>, damageZone |-> <<>>, soul |-> <<>>,
     gZone |-> <<>>, bindZone |-> <<>>, guardianZone |-> <<>>,
     triggerZone |-> <<>>, crestZone |-> <<>>, orderZone |-> <<>>,
     energy |-> 0, maxEnergy |-> 3,
     continuousEffects |-> <<>>, usedTurnlyEffects |-> <<>>]

NewParty ==
    [players |-> [p \in PlayerIdx |-> createPlayerState(p)],
     turn |-> 0, currentPlayerIndex |-> 0, phase |-> "setup",
     currentBattle |-> [set |-> FALSE], eventQueue |-> <<>>,
     nextPhase |-> Undef,
     cards |-> [c \in CardIds |-> NewCardState]]

NoBattle == [set |-> FALSE]

frontRow(board) == [i \in 1..3 |-> [name |-> FrontRowNames[i], unit |-> board[FrontRowNames[i]]]]
backRow(board) == [i \in 1..3 |-> [name |-> BackRowNames[i], unit |-> board[BackRowNames[i]]]]

\* Board.getCircle throws on an unknown name; HasCircle is its success case
HasCircle(name) == name \in CircleNames


-----------------------------------------------------------------------------
(* Party methods. *)

Active(s) == s.players[s.currentPlayerIndex]
Opponent(s) == s.players[1 - s.currentPlayerIndex]

\* Math.floor(Math.random() * (i + 1)) for the two extreme random streams
RandStreams == {"lo", "hi"}
RandomIndex(r, i) == IF r = "hi" THEN i ELSE 0

\* Fisher-Yates, i and j 0-based as in the source
RECURSIVE FisherYates(_, _, _)
FisherYates(deck, i, r) ==
    IF i <= 0 THEN deck
    ELSE FisherYates(Swap(deck, i + 1, RandomIndex(r, i) + 1), i - 1, r)

shuffleDeck(s, playerIndex, r) ==
    [s EXCEPT !.players[playerIndex].deck = FisherYates(@, Len(@) - 1, r)]

RECURSIVE draw(_, _, _)
draw(s, playerIndex, count) ==
    LET player == s.players[playerIndex] IN
    IF count <= 0 THEN s
    ELSE IF Len(player.deck) > 0
         THEN draw([s EXCEPT !.players[playerIndex].deck = SubSeq(@, 1, Len(@) - 1),
                             !.players[playerIndex].hand = Append(@, player.deck[Len(player.deck)])],
                   playerIndex, count - 1)
         ELSE draw(s, playerIndex, count - 1)

\* [...frontRow, ...backRow].filter(c => c.unit).map(c => c.unit)
boardUnits(board) ==
    LET all == frontRow(board) \o backRow(board)
        occupied(c) == c.unit # 0
        occ == Filter(all, occupied)
    IN [i \in 1..Len(occ) |-> occ[i].unit]

AddBonusPower(s, units) ==
    [s EXCEPT !.cards = [c \in CardIds |->
        IF c \in units THEN [@[c] EXCEPT !.bonusPower = @ + TriggerPower] ELSE @[c]]]

\* answers are the numbers the player types: an index into boardUnits, or
\* NoNum for an answer parseInt cannot read
\* the comparison of the damage counts turned round
healAllowedWhenAhead(player, opponent) ==
    /\ Len(player.damageZone) <= Len(opponent.damageZone)
    /\ Len(player.damageZone) > 0

\* player.damageZone.length >= opponent.damageZone.length
\*     && player.damageZone.length > 0
healAllowed(player, opponent) ==
    /\ Len(player.damageZone) >= Len(opponent.damageZone)
    /\ Len(player.damageZone) > 0

applyTriggerEffect(s, triggerType, playerIndex, powerAnswer, critAnswer) ==
    LET player == s.players[playerIndex]
        opponent == s.players[1 - playerIndex]
        units == boardUnits(player.board)
        chosen(a) == IF a >= 0 /\ a < Len(units) THEN {units[a + 1]} ELSE {}
        s1 == AddBonusPower(s, chosen(powerAnswer))
    IN
    IF triggerType = "Front"
    THEN AddBonusPower(s, {player.board[n] : n \in Range(FrontRowNames)} \ {0})
    ELSE CASE triggerType = "Critical" ->
                [s1 EXCEPT !.cards = [c \in CardIds |->
                    IF c \in chosen(critAnswer)
                    THEN [@[c] EXCEPT !.bonusCritical = @ + 1] ELSE @[c]]]
           [] triggerType = "Draw" -> draw(s1, playerIndex, 1)
           [] triggerType = "Heal" ->
                IF healAllowed(player, opponent)
                THEN [s1 EXCEPT
                        !.players[playerIndex].damageZone = SubSeq(@, 1, Len(@) - 1),
                        !.players[playerIndex].dropZone =
                            Append(@, player.damageZone[Len(player.damageZone)])]
                ELSE s1
           [] OTHER -> s1

\* one revealed card of a damage check (toHand = FALSE) or of a drive check
checkOne(s, playerIndex, toHand, powerAnswer, critAnswer) ==
    LET player == s.players[playerIndex] IN
    IF Len(player.deck) > 0
    THEN LET checkedCard == player.deck[Len(player.deck)]
             s1 == [s EXCEPT !.players[playerIndex].deck = SubSeq(@, 1, Len(@) - 1)]
             s2 == IF CardDef(checkedCard).trigger # ""
                   THEN applyTriggerEffect(s1, CardDef(checkedCard).trigger, playerIndex,
                                           powerAnswer, critAnswer)
                   ELSE s1
         IN IF toHand
            THEN [s2 EXCEPT !.players[playerIndex].hand = Append(@, checkedCard)]
            ELSE [s2 EXCEPT !.players[playerIndex].damageZone = Append(@, checkedCard)]
    ELSE s

RECURSIVE damageCheck(_, _, _, _, _)
damageCheck(s, playerIndex, amount, powerAnswer, critAnswer) ==
    IF amount <= 0 THEN s
    ELSE damageCheck(checkOne(s, playerIndex, FALSE, powerAnswer, critAnswer),
                     playerIndex, amount - 1, powerAnswer, critAnswer)

RECURSIVE driveCheck(_, _, _, _)
driveCheck(s, amount, powerAnswer, critAnswer) ==
    IF amount <= 0 THEN s
    ELSE driveCheck(checkOne(s, s.currentPlayerIndex, TRUE, powerAnswer, critAnswer),
                    amount - 1, powerAnswer, critAnswer)

startGame(s, r0, r1) ==
    LET s1 == [s EXCEPT !.turn = 1, !.currentPlayerIndex = 0, !.phase = "mulligan"]
        s2 == shuffleDeck(shuffleDeck(s1, 0, r0), 1, r1)
    IN draw(draw(s2, 0, StartHandSize), 1, StartHandSize)

nextTurn(s) ==
    LET s1 == [s EXCEPT !.turn = @ + 1] IN
    IF s.currentPlayerIndex = 1
    THEN [s1 EXCEPT !.players = [p \in PlayerIdx |-> [@[p] EXCEPT !.usedTurnlyEffects = <<>>]]]
    ELSE s1

switchPlayer(s) == [s EXCEPT !.currentPlayerIndex = 1 - @]

isGameOver(s) ==
    s.turn > TurnLimit \/ \E p \in PlayerIdx : Len(s.players[p].damageZone) >= DamageLimit


-----------------------------------------------------------------------------
(* ConditionEvaluator.js *)

\* [def |-> FALSE] is undefined
getContextValue(path, s) ==
    CASE path = "player.index" -> [def |-> TRUE, v |-> s.currentPlayerIndex]
      [] path = "player.energy" -> [def |-> TRUE, v |-> Active(s).energy]
      [] OTHER -> [def |-> FALSE, v |-> 0]

RECURSIVE evaluateCondition(_, _)
evaluateCondition(condition, s) ==
    CASE condition.k = "none" -> TRUE
      [] condition.k = "bin" ->
            LET left == evaluateCondition(condition.left, s)
                right == evaluateCondition(condition.right, s)
            IN IF condition.op = "and" THEN left /\ right ELSE left \/ right
      [] condition.k = "leaf" ->
            LET fieldValue == getContextValue(condition.field, s) IN
            CASE condition.op = "===" -> fieldValue.def /\ fieldValue.v = condition.value
              [] condition.op = "!==" -> ~(fieldValue.def /\ fieldValue.v = condition.value)
              [] condition.op = ">=" -> fieldValue.def /\ fieldValue.v >= condition.value
              [] condition.op = "<=" -> fieldValue.def /\ fieldValue.v <= condition.value
              [] OTHER -> FALSE
      [] OTHER -> FALSE

\* whether evaluateCondition raises: a truthy value that is no array and no
\* string has no includes method, and a field that is no string has no
\* split method; both parts of a composite are evaluated
RECURSIVE evaluateConditionThrows(_)
evaluateConditionThrows(condition) ==
    CASE condition.k = "none" -> FALSE
      [] condition.k = "value" -> TRUE
      [] condition.k = "bin" ->
            evaluateConditionThrows(condition.left) \/ evaluateConditionThrows(condition.right)
      [] condition.k = "leaf" -> condition.field = ""
      [] OTHER -> FALSE

-----------------------------------------------------------------------------
(* ActionManager.js: the action generator.  Display strings are left out.  *)

getCallActions(s, activePlayer) ==
    LET vanguard == activePlayer.board["V"]
        availableCircles == <<"R1", "R2", "R3", "R4", "R5">>
        perCard(card) ==
            IF CardDef(card).power # NoNum
               /\ Num(CardDef(card).grade) <= Num(CardDef(vanguard).grade)
            THEN [i \in 1..Len(availableCircles) |->
                    [type |-> "CALL", cardInstanceId |-> card,
                     circleTag |-> availableCircles[i]]]
            ELSE <<>>
    IN IF vanguard = 0 THEN <<>>
       ELSE Flatten([i \in 1..Len(activePlayer.hand) |-> perCard(activePlayer.hand[i])])

getMoveActions(s, activePlayer) ==
    LET board == activePlayer.board
        columns == << <<"R1", "R3">>, <<"R2", "R5">> >>
        perColumn(col) ==
            IF board[col[1]] # 0 \/ board[col[2]] # 0
            THEN << [type |-> "MOVE",
                     from |-> IF board[col[1]] # 0 THEN col[1] ELSE col[2],
                     to |-> IF board[col[1]] # 0 THEN col[2] ELSE col[1]] >>
            ELSE <<>>
    IN Flatten([i \in 1..2 |-> perColumn(columns[i])])

\* no effect counts as used
alreadyUsedNever(effect, activePlayer) == FALSE

\* effect.once_per_turn && usedTurnlyEffects.includes(effect.function_index)
alreadyUsed(effect, activePlayer) ==
    /\ effect.once_per_turn
    /\ effect.function_index \in Range(activePlayer.usedTurnlyEffects)

getActActions(s, activePlayer) ==
    LET onBoard == frontRow(activePlayer.board) \o backRow(activePlayer.board)
        present(c) == c # 0
        cardsWithPotentialActs ==
            Filter([i \in 1..6 |-> onBoard[i].unit] \o activePlayer.crestZone, present)
        offered(card, effect) ==
            /\ effect.is_act
            /\ ~alreadyUsed(effect, activePlayer)
            /\ evaluateCondition(effect.condition, s)
        perCard(card) ==
            LET effs == CardDef(card).effects
                ok(e) == offered(card, e)
                sel == Filter(effs, ok)
            IN [i \in 1..Len(sel) |->
                    [type |-> "ACT", cardId |-> CardDef(card).id, effect |-> sel[i]]]
    IN Flatten([i \in 1..Len(cardsWithPotentialActs) |-> perCard(cardsWithPotentialActs[i])])

\* the filter of the interceptors without the test of the skill
canInterceptUnskilled(s, c) ==
    /\ c.unit # 0
    /\ ~s.cards[c.unit].isResting

\* c.unit && !c.unit.isResting && c.unit.skills.includes('Intercept')
canIntercept(s, c) ==
    /\ c.unit # 0
    /\ ~s.cards[c.unit].isResting
    /\ "Intercept" \in CardDef(c.unit).skills

getGuardActions(s) ==
    LET defendingPlayer == s.players[1 - s.currentPlayerIndex]
        hasShield(card) == CardDef(card).shield # NoNum
        guards == Filter(defendingPlayer.hand, hasShield)
        able(c) == canIntercept(s, c)
        interceptors == Filter(frontRow(defendingPlayer.board), able)
    IN [i \in 1..Len(guards) |->
            [type |-> "GUARD", cardInstanceId |-> guards[i],
             shield |-> CardDef(guards[i]).shield]]
       \o [i \in 1..Len(interceptors) |->
            [type |-> "INTERCEPT", cardInstanceId |-> interceptors[i].unit,
             shield |-> CardDef(interceptors[i].unit).shield,
             fromCircle |-> interceptors[i].name]]
       \o << [type |-> "PASS_GUARD_STEP"] >>

\* { 'R1': 'R3', 'V': 'R4', 'R2': 'R5' }[name], "" when the name is no key
\* the vanguard paired with the circle behind R2
BackRowCircleNameCrossed(name) ==
    CASE name = "R1" -> "R3" [] name = "V" -> "R5" [] name = "R2" -> "R4" [] OTHER -> ""

BackRowCircleName(name) ==
    CASE name = "R1" -> "R3" [] name = "V" -> "R4" [] name = "R2" -> "R5" [] OTHER -> ""

\* any standing unit boosts
canBoostUnskilled(s, b) == b # 0 /\ ~s.cards[b].isResting

\* circle.unit && !circle.unit.isResting && circle.unit.skills.includes('Boost')
canBoost(s, b) == b # 0 /\ ~s.cards[b].isResting /\ "Boost" \in CardDef(b).skills

getBattlePhaseActions(s) ==
    LET activePlayer == Active(s)
        opponentPlayer == Opponent(s)
        canAttack(c) == c.unit # 0 /\ ~s.cards[c.unit].isResting
        occupied(c) == c.unit # 0
        potentialAttackers == Filter(frontRow(activePlayer.board), canAttack)
        potentialTargets == Filter(frontRow(opponentPlayer.board), occupied)
        hasBooster(attackerCircle) ==
            LET b == activePlayer.board[BackRowCircleName(attackerCircle.name)] IN
            canBoost(s, b)
        createAttackAction(attackerCircle, shouldBoost) ==
            [i \in 1..Len(potentialTargets) |->
                [type |-> "ATTACK",
                 attacker |-> [name |-> attackerCircle.name, card |-> attackerCircle.unit],
                 target |-> [name |-> potentialTargets[i].name,
                             card |-> potentialTargets[i].unit],
                 boost |-> shouldBoost]]
        perAttacker(attackerCircle) ==
            IF hasBooster(attackerCircle)
            THEN createAttackAction(attackerCircle, TRUE)
                 \o createAttackAction(attackerCircle, FALSE)
            ELSE createAttackAction(attackerCircle, FALSE)
    IN (IF Len(potentialTargets) > 0
        THEN Flatten([i \in 1..Len(potentialAttackers) |-> perAttacker(potentialAttackers[i])])
        ELSE <<>>)
       \o << [type |-> "PASS_BATTLE_PHASE"] >>

getMainPhaseActions(s) ==
    LET activePlayer == Active(s) IN
    getCallActions(s, activePlayer) \o getMoveActions(s, activePlayer)
    \o getActActions(s, activePlayer) \o << [type |-> "PASS_MAIN_PHASE"] >>

\* the positions j < handSize with bit j of i set, ascending
\* the bits of i read one place too high
RedrawIndicesShifted(i, handSize) ==
    LET bit(j) == (i \div Pow2(j + 1)) % 2 = 1
        f[j \in 0..handSize] ==
            IF j = 0 THEN <<>>
            ELSE IF bit(j - 1) THEN Append(f[j - 1], j - 1) ELSE f[j - 1]
    IN f[handSize]

RedrawIndices(i, handSize) ==
    LET bit(j) == (i \div Pow2(j)) % 2 = 1
        f[j \in 0..handSize] ==
            IF j = 0 THEN <<>>
            ELSE IF bit(j - 1) THEN Append(f[j - 1], j - 1) ELSE f[j - 1]
    IN f[handSize]

getMulliganActions(s, activePlayer) ==
    LET handSize == Len(activePlayer.hand) IN
    [k \in 1..Pow2(handSize) |->
        [type |-> "MULLIGAN", cardIndicesToRedraw |-> RedrawIndices(k - 1, handSize)]]


\* a grade skipped
nextGradeSkipping(hasVanguard, vanguardGrade) ==
    IF hasVanguard THEN Num(vanguardGrade) + 2 ELSE 0

\* currentVanguardGrade + 1, with -1 for a missing vanguard and 0 for null
nextGrade(hasVanguard, vanguardGrade) ==
    IF hasVanguard THEN Num(vanguardGrade) + 1 ELSE 0

getRideActions(s, activePlayer) ==
    LET currentVanguard == activePlayer.board["V"]
        hasVanguard == currentVanguard # 0
        vanguardGrade == IF hasVanguard THEN CardDef(currentVanguard).grade ELSE NoNum
        nextGradeValue == nextGrade(hasVanguard, vanguardGrade)
        isNextGrade(card) ==
            CardDef(card).grade # NoNum /\ CardDef(card).grade = nextGradeValue
        isSameGrade(card) == hasVanguard /\ CardDef(card).grade = vanguardGrade
        hand == activePlayer.hand
        \* the seenActions set: the first hand card of each id
        fromHand(i) ==
            IF (isNextGrade(hand[i]) \/ isSameGrade(hand[i]))
               /\ \A k \in 1..(i - 1) :
                    ~((isNextGrade(hand[k]) \/ isSameGrade(hand[k]))
                      /\ CardDef(hand[k]).id = CardDef(hand[i]).id)
            THEN << [type |-> "RIDE", cardId |-> CardDef(hand[i]).id, source |-> "hand"] >>
            ELSE <<>>
        rideIdx == FindIndex(activePlayer.rideDeck, isNextGrade)
        \* new Map(hand.map(card => [card.name, card])).values(): one entry per
        \* name, at the position of its first card, holding its last card
        discardOf(i) ==
            IF \A k \in 1..(i - 1) : CardDef(hand[k]).name # CardDef(hand[i]).name
            THEN LET last == CHOOSE k \in DOMAIN hand :
                                /\ CardDef(hand[k]).name = CardDef(hand[i]).name
                                /\ \A m \in (k + 1)..Len(hand) :
                                      CardDef(hand[m]).name # CardDef(hand[i]).name
                 IN << [type |-> "RIDE",
                        cardId |-> CardDef(activePlayer.rideDeck[rideIdx]).id,
                        source |-> "rideDeck",
                        discardCardId |-> CardDef(hand[last]).id] >>
            ELSE <<>>
    IN Flatten([i \in 1..Len(hand) |-> fromHand(i)])
       \o (IF rideIdx # 0 THEN Flatten([i \in 1..Len(hand) |-> discardOf(i)]) ELSE <<>>)
       \o << [type |-> "PASS_RIDE_PHASE"] >>

\* getEffectActions calls collectEffectsForEvent, which ActionManager.js
\* neither defines nor imports: a ReferenceError
getEffectActionsThrows(s) ==
    Len(s.eventQueue) > 0 /\ ~s.eventQueue[1].collected

\* the list without the closing PASS_EFFECT
getEffectActionsWithoutPass(s) ==
    IF Len(s.eventQueue) = 0 THEN <<>>
    ELSE LET currentEvent == s.eventQueue[1]
             optional(p) == ~p.effect.mandatory
             optionalEffects == Filter(currentEvent.pendingEffects, optional)
         IN [i \in 1..Len(optionalEffects) |->
                [type |-> "ACTIVATE_EFFECT", effectToActivate |-> optionalEffects[i]]]

getEffectActions(s) ==
    IF Len(s.eventQueue) = 0 THEN <<>>
    ELSE LET currentEvent == s.eventQueue[1]
             optional(p) == ~p.effect.mandatory
             optionalEffects == Filter(currentEvent.pendingEffects, optional)
         IN [i \in 1..Len(optionalEffects) |->
                [type |-> "ACTIVATE_EFFECT", effectToActivate |-> optionalEffects[i]]]
            \o << [type |-> "PASS_EFFECT"] >>

getPossibleActionsThrows(s) ==
    s.phase = "effect_resolution" /\ getEffectActionsThrows(s)

getPossibleActions(s) ==
    LET activePlayer == Active(s) IN
    CASE s.phase = "mulligan" -> getMulliganActions(s, activePlayer)
      [] s.phase = "ride" -> getRideActions(s, activePlayer)
      [] s.phase = "main" -> getMainPhaseActions(s)
      [] s.phase = "act" -> <<>>
      [] s.phase = "battle" -> getBattlePhaseActions(s)
      [] s.phase = "guard" -> getGuardActions(s)
      [] s.phase = "effect_resolution" -> getEffectActions(s)
      [] OTHER -> << [type |-> "PASS"] >>


-----------------------------------------------------------------------------
(* EffectLibrary.js.  An effect procedure changes the state it is given in *)
(* place; [st, threw] is the state it leaves and whether it raised.        *)

\* the eventPayload passed to a procedure; target <<>> is an absent target
Payload(type, target) == [type |-> type, target |-> target]
EmptyPayload == Payload("", <<>>)

onRideIfSecondDraw(s, eventPayload) ==
    IF Len(eventPayload.target) < 2
    THEN [st |-> s, threw |-> TRUE]
    ELSE [st |-> draw(s, s.currentPlayerIndex, 1), threw |-> FALSE]

onRideEnergyCrest(s, eventPayload) ==
    LET playerIndex == s.currentPlayerIndex
        player == s.players[playerIndex]
        isCrest(c) == CardDef(c).name = "Energy Generator"
        crestIndex == FindIndex(player.rideDeck, isCrest)
        s1 == IF crestIndex # 0
              THEN [s EXCEPT !.players[playerIndex].rideDeck = RemoveAt(@, crestIndex),
                             !.players[playerIndex].crestZone =
                                    Append(@, player.rideDeck[crestIndex]),
                             !.players[playerIndex].continuousEffects =
                                    Append(@, "MAX_ENERGY_10")]
              ELSE s
    IN [st |-> IF playerIndex = 1
               THEN [s1 EXCEPT !.players[playerIndex].energy = @ + EnergyCharge]
               ELSE s1,
        threw |-> FALSE]

onRidePhaseStartEnergyCrest(s, eventPayload) ==
    [st |-> [s EXCEPT !.players[s.currentPlayerIndex].energy = @ + EnergyCharge],
     threw |-> FALSE]

onActEnergyCrest(s, eventPayload) ==
    LET playerIndex == s.currentPlayerIndex IN
    [st |-> draw([s EXCEPT !.players[playerIndex].energy = @ - EnergyBlast], playerIndex, 1),
     threw |-> FALSE]

\* effectLibrary[function_index] is defined
InLibrary(fi) == fi \in 0..3

effectLibrary(fi, s, eventPayload) ==
    CASE fi = 0 -> onRideIfSecondDraw(s, eventPayload)
      [] fi = 1 -> onRideEnergyCrest(s, eventPayload)
      [] fi = 2 -> onRidePhaseStartEnergyCrest(s, eventPayload)
      [] fi = 3 -> onActEnergyCrest(s, eventPayload)

-----------------------------------------------------------------------------
(* ActionApplier.js.  The result of an applier function is                 *)
(*   st    the state object it returns (or, when it raised, the state it   *)
(*         was working on),                                                *)
(*   same  whether that object is the very object it was given,            *)
(*   threw whether it raised an error,                                     *)
(*   runs  the effect procedures it invoked, in order.                     *)

\* cloneDeep copies the whole object graph: same contents, another object
cloneDeep(s) == s

Fresh(st) == [st |-> st, same |-> FALSE, threw |-> FALSE, runs |-> <<>>]
Original(s) == [st |-> s, same |-> TRUE, threw |-> FALSE, runs |-> <<>>]
Raised(st) == [st |-> st, same |-> FALSE, threw |-> TRUE, runs |-> <<>>]

\* one invocation of an effect procedure: which, for which card, how it was
\* reached, the type of the head event and whether the effect was still in
\* the head event's pending list when the procedure ran
Run(fi, cardId, via, eventType, listed) ==
    [function_index |-> fi, cardId |-> cardId, via |-> via,
     eventType |-> eventType, listed |-> listed]

ResetCard(s, cs) ==
    [s EXCEPT !.cards = [c \in CardIds |-> IF c \in cs THEN NewCardState ELSE @[c]]]

\* the card stays as it is
SetRestingNot(s, c, v) == s

SetResting(s, c, v) == [s EXCEPT !.cards[c].isResting = v]

\* the game started once the first player has redrawn
mulliganDoneAtOnce(s3, idx) == [s3 EXCEPT !.currentPlayerIndex = 0, !.phase = "stand"]

\* player 1 hands over to player 2's mulligan, player 2 to player 1's stand phase
mulliganDone(s3, idx) ==
    IF idx = 0
    THEN [s3 EXCEPT !.currentPlayerIndex = 1]
    ELSE [s3 EXCEPT !.currentPlayerIndex = 0, !.phase = "stand"]

applyMulligan(gameState, action, r) ==
    LET newGameState == cloneDeep(gameState)
        idx == newGameState.currentPlayerIndex
        hand == newGameState.players[idx].hand
        redrawn(i) == (i - 1) \in Range(action.cardIndicesToRedraw)
        positions == [i \in 1..Len(hand) |-> i]
        keepPos(i) == ~redrawn(i)
        cardsToKeep == LET ps == Filter(positions, keepPos)
                       IN [k \in 1..Len(ps) |-> hand[ps[k]]]
        cardsToRedraw == LET ps == Filter(positions, redrawn)
                         IN [k \in 1..Len(ps) |-> hand[ps[k]]]
        s1 == ResetCard(newGameState, Range(cardsToRedraw))
        s2 == [s1 EXCEPT !.players[idx].deck = cardsToRedraw \o @,
                         !.players[idx].hand = cardsToKeep]
        s3 == draw(shuffleDeck(s2, idx, r), idx, Len(cardsToRedraw))
    IN Fresh(mulliganDone(s3, idx))

\* an action field the action does not carry is undefined
Has(action, field) == field \in DOMAIN action

applyCall(gameState, action) ==
    LET newGameState == cloneDeep(gameState)
        idx == newGameState.currentPlayerIndex
        activePlayer == newGameState.players[idx]
        hand == activePlayer.hand
    IN
    IF Has(action, "cardIndexInHand")
       /\ (action.cardIndexInHand < 0 \/ action.cardIndexInHand >= Len(hand))
    THEN Original(gameState)
    ELSE
        \* splice(undefined, 1) removes position 0
        LET cardIndex == IF Has(action, "cardIndexInHand") THEN action.cardIndexInHand ELSE 0
            cardToCall == IF cardIndex < Len(hand) THEN hand[cardIndex + 1] ELSE 0
            s1 == IF cardIndex < Len(hand)
                  THEN [newGameState EXCEPT !.players[idx].hand = RemoveAt(@, cardIndex + 1)]
                  ELSE newGameState
        IN IF ~HasCircle(action.circleTag)
           THEN Raised(s1)
           ELSE LET old == activePlayer.board[action.circleTag]
                    s2 == IF old # 0
                          THEN [s1 EXCEPT !.players[idx].dropZone = Append(@, old)]
                          ELSE s1
                IN Fresh([s2 EXCEPT !.players[idx].board[action.circleTag] = cardToCall])

applyMove(gameState, action) ==
    LET newGameState == cloneDeep(gameState)
        idx == newGameState.currentPlayerIndex
        board == newGameState.players[idx].board
    IN IF ~HasCircle(action.from) \/ ~HasCircle(action.to)
       THEN Raised(newGameState)
       ELSE Fresh([newGameState EXCEPT
                    !.players[idx].board =
                        [[@ EXCEPT ![action.from] = board[action.to]]
                            EXCEPT ![action.to] = board[action.from]]])

applyGuard(gameState, action) ==
    LET newGameState == cloneDeep(gameState)
        idx == 1 - newGameState.currentPlayerIndex
        defendingPlayer == newGameState.players[idx]
        isIt(c) == c = action.cardInstanceId
        cardIndex == FindIndex(defendingPlayer.hand, isIt)
    IN IF cardIndex = 0
       THEN Original(gameState)
       ELSE Fresh([newGameState EXCEPT
                    !.players[idx].hand = RemoveAt(@, cardIndex),
                    !.players[idx].guardianZone = Append(@, defendingPlayer.hand[cardIndex])])

applyIntercept(gameState, action) ==
    LET newGameState == cloneDeep(gameState)
        idx == 1 - newGameState.currentPlayerIndex
        defendingPlayer == newGameState.players[idx]
    IN IF ~HasCircle(action.fromCircle)
       THEN Raised(newGameState)
       ELSE LET unit == defendingPlayer.board[action.fromCircle] IN
            IF unit = 0 \/ unit # action.cardInstanceId
            THEN Original(gameState)
            ELSE Fresh([SetResting(newGameState, unit, TRUE) EXCEPT
                         !.players[idx].board[action.fromCircle] = 0,
                         !.players[idx].guardianZone = Append(@, unit)])


\* the cost check of applyAct left out
cannotPayNever(effect, activePlayer) == FALSE

\* effect.cost?.energy && activePlayer.energy < effect.cost.energy
cannotPay(effect, activePlayer) ==
    effect.cost # 0 /\ activePlayer.energy < effect.cost

applyAct(gameState, action) ==
    LET newGameState == cloneDeep(gameState)
        idx == newGameState.currentPlayerIndex
        activePlayer == newGameState.players[idx]
        effect == action.effect
    IN
    IF cannotPay(effect, activePlayer)
    THEN Original(gameState)
    ELSE LET s1 == IF effect.once_per_turn
                   THEN [newGameState EXCEPT !.players[idx].usedTurnlyEffects =
                                                Append(@, effect.function_index)]
                   ELSE newGameState
         IN IF InLibrary(effect.function_index)
            THEN LET e == effectLibrary(effect.function_index, s1, EmptyPayload) IN
                 [st |-> e.st, same |-> FALSE, threw |-> e.threw,
                  runs |-> << Run(effect.function_index, action.cardId, "act", "", FALSE) >>]
            ELSE Fresh(s1)

\* a reference to a Circle object of the state: the owner's board and the name
CircleRef(owner, name) == [owner |-> owner, name |-> name]
UnitAt(s, ref) == s.players[ref.owner].board[ref.name]

\* the booster left standing
restBoosterNot(s1, booster) == s1

\* if (booster) booster.isResting = true
restBooster(s1, booster) == IF booster # 0 THEN SetResting(s1, booster, TRUE) ELSE s1

applyAttack(gameState, action) ==
    LET newGameState == cloneDeep(gameState)
        idx == newGameState.currentPlayerIndex
        activePlayer == newGameState.players[idx]
        opponentPlayer == newGameState.players[1 - idx]
    IN
    IF ~HasCircle(action.attacker.name) \/ ~HasCircle(action.target.name)
    THEN Raised(newGameState)
    ELSE
    LET attacker == activePlayer.board[action.attacker.name]
        target == opponentPlayer.board[action.target.name]
    IN
    IF attacker = 0 \/ target = 0
    THEN Original(gameState)
    ELSE
    LET s1 == SetResting(newGameState, attacker, TRUE)
        ownPower == Num(CardDef(attacker).power) + newGameState.cards[attacker].bonusPower
        backRowCircleName == BackRowCircleName(action.attacker.name)
    IN
    IF action.boost /\ ~HasCircle(backRowCircleName)
    THEN Raised(s1)
    ELSE
    LET booster == IF action.boost THEN activePlayer.board[backRowCircleName] ELSE 0
        s2 == restBooster(s1, booster)
        attackerPower ==
            IF booster # 0
            THEN ownPower + Num(CardDef(booster).power) + newGameState.cards[booster].bonusPower
            ELSE ownPower
    IN Fresh([s2 EXCEPT
                !.currentBattle =
                    [set |-> TRUE,
                     attackerCircle |-> CircleRef(idx, action.attacker.name),
                     targetCircle |-> CircleRef(1 - idx, action.target.name),
                     attackerPower |-> attackerPower],
                !.phase = "guard"])

\* rl is whether an input handle is passed; the answers are what the player
\* types when a damage check reveals a trigger
\* the guardians leave the guardian circle without reaching the drop zone
endOfBattleLosingGuardians(s1, opp) ==
    [s1 EXCEPT !.players[opp].guardianZone = <<>>,
               !.currentBattle = NoBattle]

\* End of battle: move guardians to drop zone, clear battle info
\* the guardians retired and the battle record kept
endOfBattleKeepingRecord(s1, opp) ==
    [s1 EXCEPT !.players[opp].dropZone = @ \o s1.players[opp].guardianZone,
               !.players[opp].guardianZone = <<>>]

endOfBattle(s1, opp) ==
    [s1 EXCEPT !.players[opp].dropZone = @ \o s1.players[opp].guardianZone,
               !.players[opp].guardianZone = <<>>,
               !.currentBattle = NoBattle]

\* the comparison made strict: an attack of equal power does not hit
attackHitsOnlyAbove(attackerPower, targetPower) == attackerPower > targetPower

\* attackerPower >= targetPower
attackHits(attackerPower, targetPower) == attackerPower >= targetPower

\* the battle phase left after every battle
phaseAfterCloseStepEnding(potentialAttackers) == "end"

\* if (potentialAttackers.length === 0) 'end' else 'battle'
phaseAfterCloseStep(potentialAttackers) ==
    IF Len(potentialAttackers) = 0 THEN "end" ELSE "battle"

applyCloseStep(gameState, rl, powerAnswer, critAnswer) ==
    LET newGameState == cloneDeep(gameState) IN
    IF ~newGameState.currentBattle.set
    THEN Raised(newGameState)
    ELSE
    LET attackerCircle == newGameState.currentBattle.attackerCircle
        targetCircle == newGameState.currentBattle.targetCircle
        attackerPower == newGameState.currentBattle.attackerPower
        idx == newGameState.currentPlayerIndex
        opp == 1 - idx
        opponentPlayer == newGameState.players[opp]
        shieldOf(card) == Num(CardDef(card).shield)
        totalShield == SumSeq(opponentPlayer.guardianZone, shieldOf)
        targetUnit == UnitAt(newGameState, targetCircle)
        attackerUnit == UnitAt(newGameState, attackerCircle)
    IN
    IF targetUnit = 0
    THEN Raised(newGameState)
    ELSE
    LET targetPower == Num(CardDef(targetUnit).power)
                       + newGameState.cards[targetUnit].bonusPower + totalShield
        hits == attackHits(attackerPower, targetPower)
    IN
    IF hits /\ targetCircle.name = "V" /\ attackerUnit = 0
    THEN Raised(newGameState)
    ELSE
    LET \* s2 is the state once the guardians are retired and the battle cleared
        closed(s2) ==
            LET canAttack(c) == c.unit # 0 /\ ~s2.cards[c.unit].isResting
                potentialAttackers == Filter(frontRow(s2.players[idx].board), canAttack)
            IN Fresh([s2 EXCEPT !.phase = phaseAfterCloseStep(potentialAttackers)])
        \* s1 is the state once the hit is dealt
        retired(s1) == closed(endOfBattle(s1, opp))
    IN retired(IF hits
               THEN IF targetCircle.name = "V"
                    THEN IF rl
                         THEN damageCheck(newGameState, opp,
                                          CardDef(attackerUnit).critical
                                          + newGameState.cards[attackerUnit].bonusCritical,
                                          powerAnswer, critAnswer)
                         ELSE newGameState
                    ELSE [newGameState EXCEPT
                             !.players[opp].dropZone = Append(@, targetUnit),
                             !.players[opp].board[targetCircle.name] = 0]
               ELSE newGameState)

Event(type, target) ==
    [type |-> type, target |-> target, collected |-> FALSE, pendingEffects |-> <<>>]

\* the vanguard ridden upon goes to the soul and no event is pushed
rodeUponSilently(s, idx, old, cardToRide) ==
    IF old # 0 THEN [s EXCEPT !.players[idx].soul = Append(@, old)] ELSE s

\* if (vanguardCircle.unit): to the soul, and ON_RIDE pushed to the queue
rodeUpon(s, idx, old, cardToRide) ==
    IF old # 0
    THEN [s EXCEPT !.players[idx].soul = Append(@, old),
                   !.eventQueue = Append(@, Event("ON_RIDE", <<old, cardToRide>>))]
    ELSE s

applyRide(gameState, action) ==
    LET newGameState == cloneDeep(gameState)
        idx == newGameState.currentPlayerIndex
        activePlayer == newGameState.players[idx]
        isCard(c) == CardDef(c).id = action.cardId
        source == IF Has(action, "source") THEN action.source ELSE Undef
        handIndex == FindIndex(activePlayer.hand, isCard)
        rideIndex == FindIndex(activePlayer.rideDeck, isCard)
        isDiscard(c) == Has(action, "discardCardId") /\ CardDef(c).id = action.discardCardId
        discardIndex == FindIndex(activePlayer.hand, isDiscard)
        place(s, cardToRide) ==
            LET old == s.players[idx].board["V"]
                s1 == rodeUpon(s, idx, old, cardToRide)
            IN [s1 EXCEPT !.players[idx].board["V"] = cardToRide, !.nextPhase = "main"]
    IN
    CASE source = "hand" ->
            IF handIndex = 0 THEN Original(gameState)
            ELSE Fresh(place([newGameState EXCEPT !.players[idx].hand = RemoveAt(@, handIndex)],
                             activePlayer.hand[handIndex]))
      [] source = "rideDeck" ->
            IF rideIndex = 0 \/ discardIndex = 0 THEN Original(gameState)
            ELSE Fresh(place([newGameState EXCEPT
                                !.players[idx].rideDeck = RemoveAt(@, rideIndex),
                                !.players[idx].hand = RemoveAt(@, discardIndex),
                                !.players[idx].dropZone =
                                    Append(@, activePlayer.hand[discardIndex])],
                             activePlayer.rideDeck[rideIndex]))
      [] OTHER -> Original(gameState)

applyPassRidePhase(gameState) == Fresh(cloneDeep(gameState))


\* String.prototype.toLowerCase on the event type tags
ToLowerCase(type) ==
    CASE type = "ON_RIDE" -> "on_ride"
      [] type = "ON_RIDE_PHASE_START" -> "on_ride_phase_start"
      [] type = "ON_CALL" -> "on_call"
      [] OTHER -> type

Pending(card, effect, event) ==
    [cardName |-> CardDef(card).name, cardId |-> CardDef(card).id, effect |-> effect,
     eventPayload |-> Payload(event.type, event.target)]

\* the four tests of collectEffectsForEvent with the condition left out
gatesPassUnconditioned(effect, zone, ownerIndex, eventTriggerName, s) ==
    /\ effect.trigger = eventTriggerName
    /\ ~(effect.zone # "" /\ effect.zone # zone)
    /\ ownerIndex = s.currentPlayerIndex

\* the four tests an effect passes to become pending: trigger, zone, owner,
\* condition
gatesPass(effect, zone, ownerIndex, eventTriggerName, s) ==
    /\ effect.trigger = eventTriggerName
    /\ ~(effect.zone # "" /\ effect.zone # zone)
    /\ ownerIndex = s.currentPlayerIndex
    /\ evaluateCondition(effect.condition, s)

collectEffectsForEvent(event, s) ==
    LET eventTriggerName == ToLowerCase(event.type)
        item(card, zone, ownerIndex) == [card |-> card, zone |-> zone, ownerIndex |-> ownerIndex]
        zoneItems(cs, zone, i) == [k \in 1..Len(cs) |-> item(cs[k], zone, i)]
        ofPlayer(i) ==
            LET player == s.players[i] IN
            [k \in 1..3 |-> item(frontRow(player.board)[k].unit, "board", i)]
            \o [k \in 1..3 |-> item(backRow(player.board)[k].unit, "board", i)]
            \o zoneItems(player.rideDeck, "rideDeck", i)
            \o zoneItems(player.crestZone, "crestZone", i)
            \o zoneItems(player.soul, "soul", i)
        present(it) == it.card # 0
        allCardsInPlay == Filter(ofPlayer(0) \o ofPlayer(1), present)
        perItem(it) ==
            LET triggered(effect) ==
                    gatesPass(effect, it.zone, it.ownerIndex, eventTriggerName, s)
                effs == Filter(CardDef(it.card).effects, triggered)
            IN [k \in 1..Len(effs) |-> Pending(it.card, effs[k], event)]
    IN Flatten([k \in 1..Len(allCardsInPlay) |-> perItem(allCardsInPlay[k])])

\* the (cardId, function_index) match ACTIVATE_EFFECT uses
SameEffect(p, q) ==
    p.cardId = q.cardId /\ p.effect.function_index = q.effect.function_index

applyActivateEffect(gameState, action) ==
    LET newGameState == cloneDeep(gameState)
        effectToActivate == action.effectToActivate
        matches(p) == SameEffect(p, effectToActivate)
    IN
    IF Len(newGameState.eventQueue) = 0
    THEN Original(gameState)
    ELSE
    LET currentEvent == newGameState.eventQueue[1] IN
    IF ~currentEvent.collected
    THEN Raised(newGameState)
    ELSE
    LET found == FindIndex(currentEvent.pendingEffects, matches) IN
    IF found = 0
    THEN Original(gameState)
    ELSE
    LET originalPendingEffect == currentEvent.pendingEffects[found]
        fi == effectToActivate.effect.function_index
        e == IF InLibrary(fi)
             THEN effectLibrary(fi, newGameState, originalPendingEffect.eventPayload)
             ELSE [st |-> newGameState, threw |-> FALSE]
        runs == IF InLibrary(fi)
                THEN << Run(fi, originalPendingEffect.cardId, "activate",
                            currentEvent.type, TRUE) >>
                ELSE <<>>
    IN IF e.threw
       THEN [st |-> e.st, same |-> FALSE, threw |-> TRUE, runs |-> runs]
       ELSE [st |-> [e.st EXCEPT !.eventQueue[1].pendingEffects = RemoveAt(@, found)],
             same |-> FALSE, threw |-> FALSE, runs |-> runs]

applyPassEffect(gameState, action) ==
    LET newGameState == cloneDeep(gameState)
        mandatory(p) == p.effect.mandatory
    IN IF Len(newGameState.eventQueue) > 0 /\ newGameState.eventQueue[1].collected
       THEN Fresh([newGameState EXCEPT !.eventQueue[1].pendingEffects = Filter(@, mandatory)])
       ELSE Fresh(newGameState)

IsMandatory(p) == p.effect.mandatory
IsOptional(p) == ~p.effect.mandatory

\* if (!currentEvent.pendingEffects)
\*     currentEvent.pendingEffects = collectEffectsForEvent(currentEvent, party)
\* no mandatory effect is found
indexOfMandatoryNever(pendingEffects) == 0

\* the place in the pending list of mandatoryEffects[0], 0 when there is none
indexOfMandatory(pendingEffects) == FindIndex(pendingEffects, IsMandatory)

\* whether the head event's pending list holds the effect
IsListed(s, effectToResolve) ==
    \E i \in DOMAIN s.eventQueue[1].pendingEffects :
        s.eventQueue[1].pendingEffects[i] = effectToResolve

collectHead(party0) ==
    IF party0.eventQueue[1].collected
    THEN party0
    ELSE [party0 EXCEPT !.eventQueue[1].pendingEffects =
                              collectEffectsForEvent(party0.eventQueue[1], party0),
                        !.eventQueue[1].collected = TRUE]

\* processEvents works in place on the object it is given: st is that
\* object's contents when it returns or raises
RECURSIVE processEvents(_, _)
processEvents(party0, runs) ==
    LET invoked(e, runs2) ==
            IF e.threw
            THEN [st |-> e.st, threw |-> TRUE, runs |-> runs2]
            ELSE processEvents(e.st, runs2)
        \* s2 is the state once the effect is spliced from the pending list
        resolve(s2, effectToResolve, eventType) ==
            IF ~InLibrary(effectToResolve.effect.function_index)
            THEN [st |-> s2, threw |-> TRUE, runs |-> runs]
            ELSE invoked(effectLibrary(effectToResolve.effect.function_index, s2,
                                       effectToResolve.eventPayload),
                         Append(runs, Run(effectToResolve.effect.function_index,
                                          effectToResolve.cardId, "auto", eventType,
                                          IsListed(s2, effectToResolve))))
        step(s1, firstMandatory, firstOptional) ==
            IF firstMandatory # 0
            THEN resolve([s1 EXCEPT !.eventQueue[1].pendingEffects =
                                        RemoveAt(@, firstMandatory)],
                         s1.eventQueue[1].pendingEffects[firstMandatory],
                         s1.eventQueue[1].type)
            ELSE IF firstOptional # 0
            THEN [st |-> [s1 EXCEPT !.phase = "effect_resolution"], threw |-> FALSE,
                  runs |-> runs]
            ELSE processEvents([s1 EXCEPT !.eventQueue = Tail(@)], runs)
        loop(s1) ==
            step(s1, indexOfMandatory(s1.eventQueue[1].pendingEffects),
                     FindIndex(s1.eventQueue[1].pendingEffects, IsOptional))
    IN
    IF Len(party0.eventQueue) = 0
    THEN [st |-> [party0 EXCEPT !.phase = IF party0.nextPhase = Undef THEN "main"
                                          ELSE party0.nextPhase],
          threw |-> FALSE, runs |-> runs]
    ELSE loop(collectHead(party0))


(* applyAction.  The result is                                             *)
(*   ret   the state returned (meaningless when threw),                    *)
(*   inp   the contents of the state object passed in, after the call,     *)
(*   same  whether the returned object is the object passed in,            *)
(*   threw whether the call raised, runs the effect procedures invoked.    *)
(* r is the random stream a MULLIGAN shuffle consumes.                     *)

NoPhase == ""

\* the part of applyAction after the switch, for the cases that break
AfterSwitch(gameState, actionType, res, postActionPhase) ==
    LET processed(pe) ==
            [ret |-> pe.st,
             inp |-> IF res.same THEN pe.st ELSE gameState,
             same |-> res.same, threw |-> pe.threw, runs |-> pe.runs]
    IN
    IF res.threw
    THEN [ret |-> gameState, inp |-> gameState, same |-> FALSE, threw |-> TRUE,
          runs |-> res.runs]
    ELSE IF actionType \in {"ACTIVATE_EFFECT", "PASS_EFFECT"}
    THEN processed(processEvents(res.st, res.runs))
    ELSE IF postActionPhase # NoPhase
    THEN processed(processEvents([res.st EXCEPT !.nextPhase = postActionPhase], res.runs))
    ELSE [ret |-> res.st, inp |-> gameState, same |-> res.same, threw |-> FALSE,
          runs |-> res.runs]

\* the cases of the switch that return at once
Returned(gameState, res) ==
    [ret |-> IF res.threw THEN gameState ELSE res.st, inp |-> gameState,
     same |-> res.same, threw |-> res.threw, runs |-> res.runs]

\* the cases of the switch that return what the sub-function returned
ReturnsAtOnce == {"MULLIGAN", "CALL", "MOVE", "GUARD", "INTERCEPT", "PASS_EFFECT"}

\* the default case made to set a next phase
postActionPhaseByDefault(type) ==
    CASE type \in {"RIDE", "PASS_RIDE_PHASE"} -> "main"
      [] type = "PASS_MAIN_PHASE" -> "battle"
      [] type = "PASS_BATTLE_PHASE" -> "end"
      [] type = "PASS_GUARD_STEP" -> "drive_check"
      [] type \in {"ACT", "ACTIVATE_EFFECT", "ATTACK", "PROCESS_EVENTS"} -> NoPhase
      [] OTHER -> "main"

\* passing the main phase made to end the turn
postActionPhaseSkippingBattle(type) ==
    CASE type \in {"RIDE", "PASS_RIDE_PHASE"} -> "main"
      [] type = "PASS_MAIN_PHASE" -> "end"
      [] type = "PASS_BATTLE_PHASE" -> "end"
      [] type = "PASS_GUARD_STEP" -> "drive_check"
      [] OTHER -> NoPhase

\* postActionPhase as the switch leaves it
postActionPhase(type) ==
    CASE type \in {"RIDE", "PASS_RIDE_PHASE"} -> "main"
      [] type = "PASS_MAIN_PHASE" -> "battle"
      [] type = "PASS_BATTLE_PHASE" -> "end"
      [] type = "PASS_GUARD_STEP" -> "drive_check"
      [] OTHER -> NoPhase

applyAction(gameState, action, r) ==
    LET type == action.type
        switched(res) ==
            IF type \in ReturnsAtOnce
            THEN Returned(gameState, res)
            ELSE AfterSwitch(gameState, type, res, postActionPhase(type))
    IN switched(
        CASE type = "MULLIGAN" -> applyMulligan(gameState, action, r)
          [] type = "RIDE" -> applyRide(gameState, action)
          [] type = "PASS_RIDE_PHASE" -> applyPassRidePhase(gameState)
          [] type = "CALL" -> applyCall(gameState, action)
          [] type = "ACT" -> applyAct(gameState, action)
          [] type = "ACTIVATE_EFFECT" -> applyActivateEffect(gameState, action)
          [] type = "MOVE" -> applyMove(gameState, action)
          [] type = "ATTACK" -> applyAttack(gameState, action)
          [] type = "GUARD" -> applyGuard(gameState, action)
          [] type = "INTERCEPT" -> applyIntercept(gameState, action)
          [] type = "PASS_EFFECT" -> applyPassEffect(gameState, action)
          \* PASS_MAIN_PHASE, PASS_BATTLE_PHASE, PASS_GUARD_STEP, PROCESS_EVENTS
          \* and the default case start from the clone
          [] OTHER -> Fresh(cloneDeep(gameState)))


-----------------------------------------------------------------------------
(* index.js: the console driver.  party is main's variable of that name,   *)
(* pc the driver's position, rng the stream Math.random reads, budget the  *)
(* number of choices other than passing the players may still take, probe  *)
(* the record of the latest applyAction call, engine the EvaluationEngine   *)
(* of a search, once one is built.                                         *)

NoProbe == [called |-> FALSE]

Called(by, pre, action, res) ==
    [called |-> TRUE, by |-> by, action |-> action, pre |-> pre, inp |-> res.inp,
     ret |-> res.ret, same |-> res.same, threw |-> res.threw, runs |-> res.runs]

\* the menu positions the players pick in the mulligan, 0-based
MulliganPicks == {0, 3}
\* what the players answer when a check reveals a trigger
TriggerAnswers == {0, NoNum}

PassTypes ==
    {"PASS_RIDE_PHASE", "PASS_MAIN_PHASE", "PASS_BATTLE_PHASE", "PASS_GUARD_STEP",
     "PASS_EFFECT", "ACTIVATE_EFFECT", "PASS", "PROCESS_EVENTS"}

Costs(action) ==
    IF action.type = "MULLIGAN" THEN action.cardIndicesToRedraw # <<>>
    ELSE action.type \notin PassTypes

\* no engine has been constructed
NoEngine == [built |-> FALSE]

InitWith(n) ==
    /\ party = NewParty
    /\ pc = "start"
    /\ budget = n
    /\ rng \in RandStreams
    /\ probe = NoProbe
    /\ engine = NoEngine

Init == InitWith(MaxChoices)

\* party = await applyAction(party, action, rl); an error ends the process
Applied(action, nextPc, res) ==
    /\ Costs(action) => budget > 0
    /\ budget' = IF Costs(action) THEN budget - 1 ELSE budget
    /\ probe' = Called("driver", party, action, res)
    /\ IF res.threw
       THEN /\ pc' = "crashed"
            /\ party' = res.inp
       ELSE /\ pc' = nextPc
            /\ party' = res.ret
    /\ UNCHANGED rng

Apply(action, nextPc) == Applied(action, nextPc, applyAction(party, action, rng))

StartGame ==
    /\ UNCHANGED engine
    /\ pc = "start"
    /\ party' = startGame(party, rng, rng)
    /\ pc' = "play"
    /\ UNCHANGED <<budget, rng, probe>>

MulliganPhase ==
    /\ UNCHANGED engine
    /\ pc = "play"
    /\ party.phase = "mulligan"
    /\ LET mulliganActions == getPossibleActions(party) IN
       \E choice \in MulliganPicks :
          /\ choice < Len(mulliganActions)
          /\ Apply(mulliganActions[choice + 1], "play")

handleStandPhase(s) ==
    LET onBoard == {s.players[s.currentPlayerIndex].board[n] : n \in CircleNames} \ {0} IN
    [s EXCEPT !.cards = [c \in CardIds |->
                            IF c \in onBoard THEN [@[c] EXCEPT !.isResting = FALSE] ELSE @[c]],
              !.phase = "draw"]

StandPhase ==
    /\ UNCHANGED engine
    /\ pc = "play"
    /\ party.phase = "stand"
    /\ party.turn <= MaxTurn
    /\ party' = handleStandPhase(party)
    /\ probe' = NoProbe
    /\ UNCHANGED <<pc, budget, rng>>

handleDrawPhase(s) == [draw(s, s.currentPlayerIndex, 1) EXCEPT !.phase = "ride"]

DrawPhase ==
    /\ UNCHANGED engine
    /\ pc = "play"
    /\ party.phase = "draw"
    /\ party' = handleDrawPhase(party)
    /\ probe' = NoProbe
    /\ UNCHANGED <<pc, budget, rng>>

\* handleRidePhase up to the point where it asks for the ride choice
RidePhaseStart ==
    /\ UNCHANGED engine
    /\ pc = "play"
    /\ party.phase = "ride"
    /\ LET pushed == [party EXCEPT !.eventQueue = Append(@, Event("ON_RIDE_PHASE_START", <<>>))]
           res == applyAction(pushed, [type |-> "PROCESS_EVENTS"], rng)
       IN /\ probe' = Called("driver", pushed, [type |-> "PROCESS_EVENTS"], res)
          /\ party' = res.ret
          /\ pc' = IF res.threw THEN "crashed" ELSE "rideChoice"
    /\ UNCHANGED <<budget, rng>>

\* handleRidePhase from the choice on
RidePhaseChoice ==
    /\ UNCHANGED engine
    /\ pc = "rideChoice"
    /\ LET rideActions == getPossibleActions(party) IN
       \E i \in DOMAIN rideActions : Apply(rideActions[i], "play")

MainPhase ==
    /\ UNCHANGED engine
    /\ pc = "play"
    /\ party.phase = "main"
    /\ LET mainActions == getPossibleActions(party) IN
       \E i \in DOMAIN mainActions : Apply(mainActions[i], "play")

BattleSkipped ==
    /\ UNCHANGED engine
    /\ pc = "play"
    /\ party.phase = "battle"
    /\ party.turn = 1
    /\ party' = [party EXCEPT !.phase = "end"]
    /\ probe' = NoProbe
    /\ UNCHANGED <<pc, budget, rng>>

BattlePhase ==
    /\ UNCHANGED engine
    /\ pc = "play"
    /\ party.phase = "battle"
    /\ party.turn # 1
    /\ LET battleActions == getPossibleActions(party) IN
       \E i \in DOMAIN battleActions : Apply(battleActions[i], "play")

GuardStep ==
    /\ UNCHANGED engine
    /\ pc = "play"
    /\ party.phase = "guard"
    /\ LET guardActions == getPossibleActions(party) IN
       \E i \in DOMAIN guardActions : Apply(guardActions[i], "play")

EffectResolutionPhase ==
    /\ UNCHANGED engine
    /\ pc = "play"
    /\ party.phase = "effect_resolution"
    /\ IF getPossibleActionsThrows(party)
       THEN /\ pc' = "crashed"
            /\ probe' = NoProbe
            /\ UNCHANGED <<party, budget, rng>>
       ELSE LET effectActions == getPossibleActions(party) IN
            \E i \in DOMAIN effectActions : Apply(effectActions[i], "play")

DriveCheckStep ==
    /\ UNCHANGED engine
    /\ pc = "play"
    /\ party.phase = "drive_check"
    /\ probe' = NoProbe
    /\ IF ~party.currentBattle.set
          \/ (party.currentBattle.attackerCircle.name = "V"
              /\ UnitAt(party, party.currentBattle.attackerCircle) = 0)
       THEN /\ pc' = "crashed"
            /\ UNCHANGED <<party, budget, rng>>
       ELSE LET attackerCircle == party.currentBattle.attackerCircle IN
            /\ \E powerAnswer \in TriggerAnswers, critAnswer \in TriggerAnswers :
                 party' = [(IF attackerCircle.name = "V"
                            THEN driveCheck(party, CardDef(UnitAt(party, attackerCircle)).drive,
                                            powerAnswer, critAnswer)
                            ELSE party)
                           EXCEPT !.phase = "close_step"]
            /\ UNCHANGED <<pc, budget, rng>>

CloseStep ==
    /\ UNCHANGED engine
    /\ pc = "play"
    /\ party.phase = "close_step"
    /\ probe' = NoProbe
    /\ \E powerAnswer \in TriggerAnswers, critAnswer \in TriggerAnswers :
          LET res == applyCloseStep(party, TRUE, powerAnswer, critAnswer) IN
          IF res.threw
          THEN /\ pc' = "crashed"
               /\ UNCHANGED <<party, budget, rng>>
          ELSE /\ party' = res.st
               /\ UNCHANGED <<pc, budget, rng>>

handleEndPhase(s) ==
    LET onBoards == {s.players[p].board[n] : p \in PlayerIdx, n \in CircleNames} \ {0}
        inHand == Range(s.players[s.currentPlayerIndex].hand)
        s1 == [s EXCEPT !.cards = [c \in CardIds |->
                 LET a == IF c \in onBoards /\ (@[c].bonusPower > 0 \/ @[c].bonusCritical > 0)
                          THEN [@[c] EXCEPT !.bonusPower = 0, !.bonusCritical = 0]
                          ELSE @[c]
                 IN IF c \in inHand THEN [a EXCEPT !.isPublic = FALSE] ELSE a]]
    IN [switchPlayer(nextTurn(s1)) EXCEPT !.phase = "stand"]

EndPhase ==
    /\ UNCHANGED engine
    /\ pc = "play"
    /\ party.phase = "end"
    /\ party' = handleEndPhase(party)
    /\ pc' = IF isGameOver(party') THEN "over" ELSE "play"
    /\ probe' = NoProbe
    /\ UNCHANGED <<budget, rng>>

\* applyCloseStep(party): the exported close step, called with no readline
\* interface
CloseStepHeadless ==
    /\ UNCHANGED engine
    /\ pc = "play"
    /\ party.phase = "close_step"
    /\ probe' = NoProbe
    /\ LET res == applyCloseStep(party, FALSE, NoNum, NoNum) IN
       IF res.threw
       THEN /\ pc' = "crashed"
            /\ UNCHANGED <<party, budget, rng>>
       ELSE /\ party' = res.st
            /\ UNCHANGED <<pc, budget, rng>>

Next ==
    \/ StartGame
    \/ MulliganPhase
    \/ StandPhase
    \/ DrawPhase
    \/ RidePhaseStart
    \/ RidePhaseChoice
    \/ MainPhase
    \/ BattleSkipped
    \/ BattlePhase
    \/ GuardStep
    \/ EffectResolutionPhase
    \/ DriveCheckStep
    \/ CloseStep
    \/ EndPhase

Spec == Init /\ [][Next]_vars

\* the same driver with more choices to take
SpecLong == InitWith(LongChoices) /\ [][Next]_vars

\* handleStandPhase(party) in the later turns of a game
StandPhaseLate ==
    /\ UNCHANGED engine
    /\ pc = "play"
    /\ party.phase = "stand"
    /\ party.turn > MaxTurn /\ party.turn <= LateTurn
    /\ party' = handleStandPhase(party)
    /\ probe' = NoProbe
    /\ UNCHANGED <<pc, budget, rng>>

\* the driver playing on to the turn limit
NextLate == Next \/ StandPhaseLate

SpecLate == Init /\ [][NextLate]_vars

\* the driver, and battles closed by a caller that holds no readline interface
NextHeadless == Next \/ CloseStepHeadless

SpecHeadless == Init /\ [][NextHeadless]_vars

-----------------------------------------------------------------------------
(* applyAction as the other callers of the module use it: the search       *)
(* engine and the tests hand it a copy of a state and an action of their   *)
(* own making.  Probe applies such an action to a copy of the driver's     *)
(* current state; probe records the call and who made it, the driver's     *)
(* state stays.                                                            *)

UnknownId == "??"
UnknownCircle == "R9"
UnknownInstance == 0 - 7

\* actions a caller can build that getPossibleActions does not generate here
ForeignActions ==
    << [type |-> "RIDE", source |-> "hand", cardId |-> UnknownId],
       [type |-> "RIDE", source |-> "rideDeck", cardId |-> UnknownId, discardCardId |-> "KN"],
       [type |-> "RIDE", source |-> "rideDeck", cardId |-> "G1", discardCardId |-> UnknownId],
       [type |-> "RIDE", source |-> "soul", cardId |-> "G1"],
       [type |-> "CALL", cardIndexInHand |-> 99, circleTag |-> "R1"],
       [type |-> "CALL", cardIndexInHand |-> 0 - 1, circleTag |-> "R1"],
       [type |-> "CALL", cardIndexInHand |-> 0, circleTag |-> UnknownCircle],
       [type |-> "CALL", cardIndexInHand |-> 0, circleTag |-> "R1"],
       [type |-> "MOVE", from |-> UnknownCircle, to |-> "R1"],
       [type |-> "MOVE", from |-> "R1", to |-> "R3"],
       [type |-> "ATTACK", attacker |-> [name |-> UnknownCircle],
        target |-> [name |-> "V"], boost |-> FALSE],
       [type |-> "ATTACK", attacker |-> [name |-> "V"],
        target |-> [name |-> "V"], boost |-> FALSE],
       [type |-> "GUARD", cardInstanceId |-> UnknownInstance],
       [type |-> "INTERCEPT", cardInstanceId |-> UnknownInstance, fromCircle |-> "R1"],
       [type |-> "INTERCEPT", cardInstanceId |-> UnknownInstance, fromCircle |-> UnknownCircle],
       [type |-> "ACT", cardId |-> "EG", effect |-> EffActDraw],
       [type |-> "ACTIVATE_EFFECT",
        effectToActivate |-> [cardId |-> UnknownId, effect |-> EffOnRideDraw]],
       [type |-> "PASS_EFFECT"],
       [type |-> "PASS_RIDE_PHASE"],
       [type |-> "PROCESS_EVENTS"],
       [type |-> "PASS"],
       [type |-> "FOO"] >>

Probe ==
    /\ UNCHANGED engine
    /\ pc \in {"play", "rideChoice"}
    \* probing the same state again finds nothing new
    /\ probe.called => probe.by = "driver"
    /\ \E i \in DOMAIN ForeignActions :
          probe' = Called("caller", party, ForeignActions[i],
                          applyAction(party, ForeignActions[i], rng))
    /\ UNCHANGED <<party, pc, budget, rng>>

InitAny == InitWith(ProbeChoices)

NextAny == Next \/ Probe

SpecAny == InitAny /\ [][NextAny]_vars

-----------------------------------------------------------------------------
(* EvaluationEngine: every iteration of the search deals the opponent's    *)
(* hidden cards anew.  Determinize is one iteration's call on the root     *)
(* state, which is a copy of the state the driver is in.                   *)

TotalTriggers == 16
TotalHeals == 4
TotalSentinels == 4

Reverse(s) == [i \in 1..Len(s) |-> s[Len(s) + 1 - i]]

\* arr.sort(() => Math.random() - 0.5) for the two extreme random streams:
\* a comparator that always answers "before" and one that always answers
\* "after"
shuffle(arr, r) == IF r = "lo" THEN arr ELSE Reverse(arr)

\* the required cards copied out of the pool and left in it as well
SpliceKeeping(arr, deleteCount) ==
    LET n == IF deleteCount < 0 THEN 0
             ELSE IF deleteCount > Len(arr) THEN Len(arr) ELSE deleteCount
    IN [taken |-> SubSeq(arr, 1, n), rest |-> arr]

\* arr.splice(0, deleteCount): the elements removed and what arr is left as
Splice(arr, deleteCount) ==
    LET n == IF deleteCount < 0 THEN 0
             ELSE IF deleteCount > Len(arr) THEN Len(arr) ELSE deleteCount
    IN [taken |-> SubSeq(arr, 1, n), rest |-> SubSeq(arr, n + 1, Len(arr))]

\* a deal that forgets the public cards and leaves the whole pool in the deck
dealHandHidden(detState, opponentIndex, newOpponentHand, finalPool, handSize) ==
    [detState EXCEPT !.players[opponentIndex].hand = <<>>,
                     !.players[opponentIndex].deck = finalPool]

\* the loop that deals the new hand from the end of finalPool; the rest is
\* the new deck
dealHand(detState, opponentIndex, newOpponentHand, finalPool, handSize) ==
    IF Len(newOpponentHand) < handSize /\ Len(finalPool) > 0
    THEN LET n == IF handSize - Len(newOpponentHand) < Len(finalPool)
                  THEN handSize - Len(newOpponentHand) ELSE Len(finalPool)
         IN [detState EXCEPT
                !.players[opponentIndex].hand =
                    newOpponentHand \o [i \in 1..n |-> finalPool[Len(finalPool) + 1 - i]],
                !.players[opponentIndex].deck = SubSeq(finalPool, 1, Len(finalPool) - n)]
    ELSE [detState EXCEPT !.players[opponentIndex].hand = newOpponentHand,
                          !.players[opponentIndex].deck = finalPool]

determinize(state, r) ==
    LET detState == cloneDeep(state)
        opponentIndex == 1 - state.currentPlayerIndex
        opponent == detState.players[opponentIndex]
        isPublic(c) == detState.cards[c].isPublic
        isHidden(c) == ~detState.cards[c].isPublic
        isCard(c) == c # 0
        isTrigger(c) == CardDef(c).trigger # ""
        isHeal(c) == CardDef(c).trigger = "Heal"
        isOtherTrigger(c) == CardDef(c).trigger # "" /\ CardDef(c).trigger # "Heal"
        isSentinel(c) == "Sentinel" \in CardDef(c).skills
        isPlainSentinel(c) == "Sentinel" \in CardDef(c).skills /\ CardDef(c).trigger = ""
        isNormal(c) == CardDef(c).trigger = "" /\ "Sentinel" \notin CardDef(c).skills
        publicOpponentCardsInHand == Filter(opponent.hand, isPublic)
        unknownPool == opponent.deck \o Filter(opponent.hand, isHidden)
        knownZones ==
            Filter(publicOpponentCardsInHand
                   \o [i \in 1..3 |-> frontRow(opponent.board)[i].unit]
                   \o [i \in 1..3 |-> backRow(opponent.board)[i].unit]
                   \o opponent.dropZone \o opponent.damageZone \o opponent.soul,
                   isCard)
        max0(x) == IF x < 0 THEN 0 ELSE x
        requiredTriggers == max0(TotalTriggers - Len(Filter(knownZones, isTrigger)))
        requiredHeals == max0(TotalHeals - Len(Filter(knownZones, isHeal)))
        requiredSentinels == max0(TotalSentinels - Len(Filter(knownZones, isSentinel)))
        pooled(heals, others, sentinels) ==
            dealHand(detState, opponentIndex, publicOpponentCardsInHand,
                     shuffle(heals.rest \o others.rest \o sentinels.rest
                             \o Filter(unknownPool, isNormal)
                             \o heals.taken \o others.taken \o sentinels.taken, r),
                     Len(opponent.hand))
    IN pooled(Splice(shuffle(Filter(unknownPool, isHeal), r), requiredHeals),
              Splice(shuffle(Filter(unknownPool, isOtherTrigger), r),
                     requiredTriggers - requiredHeals),
              Splice(shuffle(Filter(unknownPool, isPlainSentinel), r), requiredSentinels))

Determinize ==
    /\ UNCHANGED engine
    /\ pc \in {"play", "rideChoice"}
    \* a second iteration on the same root deals from the same cards
    /\ probe.called => probe.by = "driver"
    /\ \E r \in RandStreams :
          probe' = [called |-> TRUE, by |-> "engine", action |-> [type |-> "DETERMINIZE"],
                    pre |-> party, inp |-> party, ret |-> determinize(party, r),
                    same |-> FALSE, threw |-> FALSE, runs |-> <<>>]
    /\ UNCHANGED <<party, pc, budget, rng>>

NextEngine == Next \/ Determinize

SpecEngine == Init /\ [][NextEngine]_vars

-----------------------------------------------------------------------------
(* EvaluationEngine: the search tree.  engine.nodes holds the Node objects  *)
(* in the order of their construction, a node is named by its place in the *)
(* sequence and 0 stands for null.  gradeScore is counted in quarters and  *)
(* damageScore in sixths, so that the totals stay integers.                *)

IterationCap == 2000
MaxRollout == 20

\* the value of a set of one element: a value that is computed once and
\* then named
The(S) == CHOOSE x \in S : TRUE

\* new Node(state, parent, action)
Node(state, parent, action) ==
    [state |-> state, parent |-> parent, action |-> action, children |-> <<>>,
     wins |-> 0, visits |-> 0, scoreData |-> [gradeScore |-> 0, damageScore |-> 0]]

\* the action of the root node
NullAction == [type |-> "null"]

isTerminal(node) == isGameOver(node.state)

isFullyExpanded(node, determinizedState) ==
    /\ Len(node.children) > 0
    /\ Len(node.children) = Len(getPossibleActions(determinizedState))

\* children.reduce over the UCT values, from -Infinity and with a strict
\* comparison.  No node has wins, so the value of a child is
\* C * sqrt(ln(node.visits) / child.visits): NaN when the child or the node
\* has no visit, 0 for every child when the node has one visit, and larger
\* for fewer visits of the child otherwise.  0 when no value beats -Infinity
bestChild(nodes, id) ==
    LET node == nodes[id]
        valued == {k \in DOMAIN node.children :
                      node.visits > 0 /\ nodes[node.children[k]].visits > 0}
        beats(k, j) ==
            node.visits > 1 /\ nodes[node.children[k]].visits < nodes[node.children[j]].visits
        best == CHOOSE k \in valued :
                    /\ \A j \in valued : ~beats(j, k)
                    /\ \A j \in valued : j < k => beats(k, j)
    IN IF valued = {} THEN 0 ELSE node.children[best]

RECURSIVE select(_, _, _)
select(nodes, id, determinizedState) ==
    IF isTerminal(nodes[id]) THEN id
    ELSE IF ~isFullyExpanded(nodes[id], determinizedState) THEN id
    ELSE The({ IF best = 0 THEN id ELSE select(nodes, best, determinizedState) :
               best \in {bestChild(nodes, id)} })

\* the first action of the list, expanded or not
firstUnexpandedOrNot(nodes, id, actions) == IF actions = <<>> THEN 0 ELSE 1

\* the first action of the list that no child of the node carries, 0 when
\* every action is represented
firstUnexpanded(nodes, id, actions) ==
    LET carried == {nodes[nodes[id].children[k]].action : k \in DOMAIN nodes[id].children}
        fresh == {i \in DOMAIN actions : actions[i] \notin carried}
    IN IF fresh = {} THEN 0 ELSE CHOOSE i \in fresh : \A j \in fresh : i <= j

\* _expand: the nodes after the call, and whether applyAction raised
expand(nodes, id, determinizedState, actions, r) ==
    The({ IF i = 0 THEN [nodes |-> nodes, threw |-> FALSE]
          ELSE The({ IF res.threw THEN [nodes |-> nodes, threw |-> TRUE]
                     ELSE [nodes |-> Append([nodes EXCEPT
                                                ![id].children = Append(@, Len(nodes) + 1)],
                                            Node(res.ret, id, actions[i])),
                           threw |-> FALSE] :
                     res \in {applyAction(determinizedState, actions[i], r)} }) :
          i \in {firstUnexpanded(nodes, id, actions)} })

\* current.visits++ and the two sub-scores added
visited(node, result) ==
    [node EXCEPT !.visits = @ + 1,
                 !.scoreData.gradeScore = @ + result.gradeScore,
                 !.scoreData.damageScore = @ + result.damageScore]

RECURSIVE climb(_, _, _, _)
\* the loop of _backpropagate: current is updated, then parent = parent.parent
\* is read, which raises when parent is null, and current = parent
climb(nodes, parent, current, result) ==
    IF current = 0 THEN [nodes |-> nodes, threw |-> FALSE]
    ELSE IF parent = 0
    THEN [nodes |-> [nodes EXCEPT ![current] = visited(@, result)], threw |-> TRUE]
    ELSE climb([nodes EXCEPT ![current] = visited(@, result)],
               nodes[parent].parent, nodes[parent].parent, result)

backpropagate(nodes, id, result) == climb(nodes, nodes[id].parent, id, result)

\* arr[Math.floor(Math.random() * arr.length)]
pickRandom(arr, r) == IF r = "lo" THEN arr[1] ELSE arr[Len(arr)]

\* the rollout's answer to an attack: the best shield of the hand when the
\* guards of the hand together stop the attack and this attack is one to
\* guard, PASS_GUARD_STEP otherwise
guardChoice(currentState, actions, attacksThisTurn) ==
    LET defendingPlayer == currentState.players[1 - currentState.currentPlayerIndex]
        attackerPower == currentState.currentBattle.attackerPower
        targetPower == Num(CardDef(UnitAt(currentState,
                                          currentState.currentBattle.targetCircle)).power)
        powerNeeded == attackerPower - targetPower
        shouldGuard == Len(defendingPlayer.damageZone) >= 5 \/ attacksThisTurn % 3 # 0
        guardsFromHand == {i \in DOMAIN actions : actions[i].type = "GUARD"}
        shieldOf(a) == Num(a.shield)
        isGuard(a) == a.type = "GUARD"
        best == CHOOSE i \in guardsFromHand :
                    /\ \A j \in guardsFromHand : actions[j].shield <= actions[i].shield
                    /\ \A j \in guardsFromHand :
                          j < i => actions[j].shield < actions[i].shield
        isPass(a) == a.type = "PASS_GUARD_STEP"
    IN IF /\ shouldGuard /\ powerNeeded > 0 /\ guardsFromHand # {}
          /\ SumSeq(Filter(actions, isGuard), shieldOf) >= powerNeeded
       THEN actions[best]
       ELSE actions[FindIndex(actions, isPass)]

\* one pass of the loop of _simulate on currentState: whether the loop goes
\* on, whether a call raised, and the state and the count of attacks the
\* next pass starts with
rolloutStep(currentState, attacksThisTurn, lastPlayerIndex, r) ==
    LET inGuard == currentState.phase = "guard"
        noTarget == \/ ~currentState.currentBattle.set
                    \/ UnitAt(currentState, currentState.currentBattle.targetCircle) = 0
        counted == IF currentState.currentPlayerIndex # lastPlayerIndex
                   THEN 0 ELSE attacksThisTurn
        stopped(threw) == [goesOn |-> FALSE, threw |-> threw, st |-> currentState,
                           attacksThisTurn |-> counted]
        applied(chosenAction) ==
            The({ IF res.threw THEN stopped(TRUE)
                  ELSE [goesOn |-> TRUE, threw |-> FALSE, st |-> res.ret,
                        attacksThisTurn |-> IF chosenAction.type = "ATTACK"
                                            THEN counted + 1 ELSE counted] :
                  res \in {applyAction(currentState, chosenAction, r)} })
    IN IF getPossibleActionsThrows(currentState) THEN stopped(TRUE)
       ELSE The({ IF actions = <<>> THEN stopped(FALSE)
                  ELSE IF inGuard /\ noTarget THEN stopped(TRUE)
                  ELSE The({ applied(chosenAction) :
                             chosenAction \in {IF inGuard
                                               THEN guardChoice(currentState, actions,
                                                                attacksThisTurn)
                                               ELSE pickRandom(actions, r)} }) :
                  actions \in {getPossibleActions(currentState)} })

RECURSIVE rollout(_, _, _, _, _)
\* the loop of _simulate: the state it ends with, and whether a call raised
rollout(currentState, turnCount, attacksThisTurn, lastPlayerIndex, r) ==
    IF isGameOver(currentState) \/ turnCount >= MaxRollout
    THEN [st |-> currentState, threw |-> FALSE]
    ELSE The({ IF step.goesOn
               THEN rollout(step.st, turnCount + 1, step.attacksThisTurn,
                            currentState.currentPlayerIndex, r)
               ELSE [st |-> currentState, threw |-> step.threw] :
               step \in {rolloutStep(currentState, attacksThisTurn, lastPlayerIndex, r)} })

\* the heuristic evaluation at the end of the rollout
scores(currentState, aiPlayerIndex) ==
    LET vanguard == currentState.players[aiPlayerIndex].board["V"]
        vanguardGrade == IF vanguard = 0 THEN 0 ELSE Num(CardDef(vanguard).grade)
        opponentDamage == Len(currentState.players[1 - aiPlayerIndex].damageZone)
    IN [gradeScore |-> IF vanguardGrade < 4 THEN vanguardGrade ELSE 4,
        damageScore |-> IF opponentDamage < 6 THEN opponentDamage ELSE 6]

\* the scores of the rollout's last state for the player who is not active
\* in the state the rollout starts from
simulateForOpponent(state, r) ==
    The({ LET result == scores(end.st, 1 - state.currentPlayerIndex)
          IN [gradeScore |-> result.gradeScore, damageScore |-> result.damageScore,
              threw |-> end.threw, last |-> end.st] :
          end \in {rollout(cloneDeep(state), 0, 0, -1, r)} })

\* _simulate: the scores of the rollout's last state for the player who is
\* active in the state the rollout starts from; last is the state the
\* rollout ended with
simulate(state, r) ==
    The({ LET result == scores(end.st, state.currentPlayerIndex)
          IN [gradeScore |-> result.gradeScore, damageScore |-> result.damageScore,
              threw |-> end.threw, last |-> end.st] :
          end \in {rollout(cloneDeep(state), 0, 0, -1, r)} })

NoScore == [returned |-> FALSE]

Scored(result) ==
    [returned |-> TRUE, gradeScore |-> result.gradeScore,
     damageScore |-> result.damageScore, last |-> result.last]

\* one pass of the loop of search on the determinized state: selection,
\* expansion, the draw of a child, simulation and backpropagation; seen
\* tells the node selected, whether _expand was called on it, the node the
\* simulation started from, and in scored what _simulate returned with the
\* state its rollout ended with
iteration(nodes, root, determinizedState, actions, pick, r) ==
    LET simulated(selected, grown) ==
            LET children == grown.nodes[selected].children
                node == IF ~isTerminal(nodes[selected]) /\ Len(children) > 0
                        THEN children[((pick - 1) % Len(children)) + 1]
                        ELSE selected
                seen(scored) ==
                    [selected |-> selected, expanding |-> ~isTerminal(nodes[selected]),
                     simulated |-> node, scored |-> scored]
            IN IF grown.threw
               THEN [nodes |-> nodes, threw |-> TRUE, seen |-> seen(NoScore)]
               ELSE The({ IF result.threw
                          THEN [nodes |-> grown.nodes, threw |-> TRUE,
                                seen |-> seen(NoScore)]
                          ELSE The({ [nodes |-> climbed.nodes, threw |-> climbed.threw,
                                      seen |-> seen(Scored(result))] :
                                     climbed \in {backpropagate(grown.nodes, node, result)} }) :
                          result \in {simulate(grown.nodes[node].state, r)} })
        expanded(selected) ==
            The({ simulated(selected, grown) :
                  grown \in {IF isTerminal(nodes[selected])
                             THEN [nodes |-> nodes, threw |-> FALSE]
                             ELSE expand(nodes, selected, determinizedState, actions, r)} })
    IN The({ expanded(selected) : selected \in {select(nodes, root, determinizedState)} })

RECURSIVE sortedByVisits(_, _)
\* children.sort((a, b) => b.visits - a.visits): a stable sort
sortedByVisits(nodes, ids) ==
    IF ids = <<>> THEN <<>>
    ELSE LET first == CHOOSE k \in DOMAIN ids :
                        /\ \A j \in DOMAIN ids : nodes[ids[j]].visits <= nodes[ids[k]].visits
                        /\ \A j \in 1..(k - 1) : nodes[ids[j]].visits < nodes[ids[k]].visits
         IN << ids[first] >> \o sortedByVisits(nodes, RemoveAt(ids, first))

\* the entry of a child in the list search returns; the score
\* 0.4 * gradeScore / visits + 0.6 * damageScore / visits is, in quarters
\* and sixths, (gradeScore + damageScore) / (10 * visits), and 0 for NaN
ranked(node) ==
    [action |-> node.action, depth |-> node.visits,
     score |-> IF node.visits > 0
               THEN [num |-> node.scoreData.gradeScore + node.scoreData.damageScore,
                     den |-> 10 * node.visits]
               ELSE [num |-> 0, den |-> 1]]

\* the passes of a search that follows an advance
AgainBound == 1

\* new EvaluationEngine(party) and the call of search(actions), with the
\* actions of the state or with none; the driver waits for the answer
SearchStart ==
    /\ pc \in {"play", "rideChoice"}
    /\ ~engine.built
    /\ ~getPossibleActionsThrows(party)
    /\ \E actions \in {getPossibleActions(party), <<>>} :
          engine' = [built |-> TRUE, status |-> "searching", actions |-> actions,
                     nodes |-> << Node(cloneDeep(party), 0, NullAction) >>,
                     root |-> 1, advances |-> 0,
                     iterations |-> 0, returned |-> <<>>,
                     seen |-> [selected |-> 0, expanding |-> FALSE, simulated |-> 0,
                               scored |-> NoScore]]
    /\ pc' = "search"
    /\ UNCHANGED <<party, budget, rng, probe>>

\* one pass of the loop of search; an error ends the search, and reading
\* the state of a root that is null is one
SearchIteration ==
    /\ pc = "search"
    /\ engine.status = "searching"
    /\ engine.iterations < IterationCap
    /\ engine.iterations < (IF engine.advances = 0 THEN IterationBound ELSE AgainBound)
    /\ IF engine.root = 0 THEN engine' = [engine EXCEPT !.status = "failed"] ELSE
       \E r \in RandStreams, pick \in 1..IterationBound :
       \E determinizedState \in {determinize(engine.nodes[engine.root].state, r)} :
       \E it \in {iteration(engine.nodes, engine.root, determinizedState,
                             engine.actions, pick, r)} :
          engine' = IF it.threw
                       THEN [engine EXCEPT !.nodes = it.nodes, !.status = "failed",
                                           !.seen = it.seen]
                       ELSE [engine EXCEPT !.nodes = it.nodes, !.iterations = @ + 1,
                                           !.seen = it.seen]
    /\ UNCHANGED <<party, pc, budget, rng, probe>>

\* the loop left, at the cap or when the time is over: the children of the
\* root are sorted and the list is returned; reading the children of a
\* root that is null raises
SearchReturn ==
    /\ pc = "search"
    /\ engine.status = "searching"
    /\ IF engine.root = 0 THEN engine' = [engine EXCEPT !.status = "failed"] ELSE
       \E sorted \in {sortedByVisits(engine.nodes, engine.nodes[engine.root].children)} :
       engine' = [engine EXCEPT
                    !.nodes[engine.root].children = sorted,
                    !.status = "returned",
                    !.returned = [k \in DOMAIN sorted |-> ranked(engine.nodes[sorted[k]])]]
    /\ pc' = "searched"
    /\ UNCHANGED <<party, budget, rng, probe>>

NextSearch == Next \/ SearchStart \/ SearchIteration \/ SearchReturn

SpecSearch == InitAny /\ [][NextSearch]_vars

-----------------------------------------------------------------------------
(* A match near its end.  With the decks of a deck file a player can take   *)
(* five damage within three turns; the deck list of this model is too       *)
(* short for that, so the state below is given instead of played to: the    *)
(* battle phase of turn 4, after both players rode their grade 1 from the   *)
(* ride deck, player 2 called a Knight to R1 and player 1 took five damage. *)
(* Every card of the model is in exactly one zone, the cards a longer deck  *)
(* would add are left out.                                                  *)

FifthDamageParty ==
    [NewParty EXCEPT
        !.turn = 4, !.currentPlayerIndex = 1, !.phase = "battle", !.nextPhase = "battle",
        !.players[0] = [@ EXCEPT
            !.board = [EmptyBoard EXCEPT !["V"] = CardOf(0, 2)],
            !.soul = << CardOf(0, 1) >>,
            !.rideDeck = <<>>,
            !.crestZone = << CardOf(0, 3) >>,
            !.continuousEffects = << "MAX_ENERGY_10" >>,
            !.energy = EnergyCharge,
            !.dropZone = << CardOf(0, 5) >>,
            !.damageZone = << CardOf(0, 6), CardOf(0, 7), CardOf(0, 8),
                              CardOf(0, 9), CardOf(0, 10) >>,
            !.hand = << CardOf(0, 12) >>,
            !.deck = << CardOf(0, 11), CardOf(0, 4) >>],
        !.players[1] = [@ EXCEPT
            !.board = [EmptyBoard EXCEPT !["V"] = CardOf(1, 2), !["R1"] = CardOf(1, 4)],
            !.soul = << CardOf(1, 1) >>,
            !.rideDeck = <<>>,
            !.crestZone = << CardOf(1, 3) >>,
            !.continuousEffects = << "MAX_ENERGY_10" >>,
            !.energy = 2 * EnergyCharge,
            !.dropZone = << CardOf(1, 5) >>,
            !.hand = << CardOf(1, 6), CardOf(1, 7), CardOf(1, 8) >>,
            !.deck = << CardOf(1, 9), CardOf(1, 10), CardOf(1, 11), CardOf(1, 12) >>]]

InitFifthDamage ==
    /\ party = FifthDamageParty
    /\ pc = "play"
    /\ budget = MaxChoices
    /\ rng \in RandStreams
    /\ probe = NoProbe
    /\ engine = NoEngine

\* the games from the start, and the match near its end
SpecFifthDamage == (Init \/ InitFifthDamage) /\ [][Next]_vars

-----------------------------------------------------------------------------
(* ConditionEvaluator.js on conditions of every shape.  A condition is     *)
(* NoCond (undefined), a Leaf (an array of three elements, the field ""    *)
(* standing for a field that is no string), a Bin (an array of three         *)
(* elements with 'and' or 'or' in the middle), a Listed (an array of          *)
(* another length without 'and' and 'or') or a Value (a number or an object *)
(* that is no array).                                                       *)

Bin(left, op, right) == [k |-> "bin", left |-> left, op |-> op, right |-> right]
Listed(n) == [k |-> "list", n |-> n]
Value == [k |-> "value"]

Leaves ==
    {Leaf(field, op, 1) :
        field \in {"player.index", "player.energy", "opponent.index", "player.hand", ""},
        op \in {"===", "!==", ">=", "<=", ">"}}

Conditions ==
    {NoCond, Value, Listed(0), Listed(2), Listed(4)}
    \cup Leaves
    \cup {Bin(Leaf("player.index", "===", 1), op, right) :
             op \in {"and", "or"},
             right \in {Leaf("player.energy", ">=", 1), Leaf("opponent.index", "!==", 1),
                        Listed(2), Value}}

\* a call of evaluateCondition(condition, party) in the state the driver is
\* in, at the start of a ride phase
EvaluateCondition ==
    /\ UNCHANGED engine
    /\ pc = "rideChoice"
    /\ probe.called => probe.by = "driver"
    /\ \E condition \in Conditions :
          probe' = [called |-> TRUE, by |-> "evaluator",
                    action |-> [type |-> "EVALUATE_CONDITION", condition |-> condition],
                    pre |-> party, inp |-> party,
                    ret |-> IF evaluateConditionThrows(condition) THEN FALSE
                            ELSE evaluateCondition(condition, party),
                    same |-> FALSE, threw |-> evaluateConditionThrows(condition),
                    runs |-> <<>>]
    /\ UNCHANGED <<party, pc, budget, rng>>

NextCondition == Next \/ EvaluateCondition

SpecCondition == Init /\ [][NextCondition]_vars

MaxAdvances == 1

\* the phases of the game in which advance is called
AdvancePhases == {"mulligan"}

\* the actions the children of the root carry
ActionsOfRootChildren ==
    {engine.nodes[engine.nodes[engine.root].children[k]].action :
        k \in DOMAIN engine.nodes[engine.root].children}

\* an action no state offers
UnofferedAction == [type |-> "NONE"]

\* children.find(child => JSON.stringify(child.action) === JSON.stringify(action)),
\* 0 when no child matches
findChild(nodes, root, action) ==
    LET matching == {k \in DOMAIN nodes[root].children :
                        nodes[nodes[root].children[k]].action = action}
    IN IF matching = {} THEN 0
       ELSE nodes[root].children[CHOOSE k \in matching : \A j \in matching : k <= j]

\* advance(action) after a search that returned, with the action of a child
\* of the root or with an action that no child carries
Advance ==
    /\ pc = "searched"
    /\ engine.status = "returned"
    /\ engine.advances < MaxAdvances
    /\ party.phase \in AdvancePhases
    /\ \E action \in ActionsOfRootChildren \cup {UnofferedAction} :
       \E nextNode \in {findChild(engine.nodes, engine.root, action)} :
          engine' = IF nextNode # 0
                    THEN [engine EXCEPT !.root = nextNode, !.nodes[nextNode].parent = 0,
                                        !.status = "advanced", !.advances = @ + 1]
                    ELSE [engine EXCEPT !.root = 0,
                                        !.status = "invalidated", !.advances = @ + 1]
    /\ UNCHANGED <<party, pc, budget, rng, probe>>

\* a following search(actions) on the same engine, with the actions of the
\* state of the new root, or with those of the first search when the tree
\* was invalidated
SearchAgain ==
    /\ pc = "searched"
    /\ engine.status \in {"advanced", "invalidated"}
    /\ engine' = [engine EXCEPT
                    !.status = "searching", !.iterations = 0, !.returned = <<>>,
                    !.actions = IF engine.root = 0 THEN @
                                ELSE getPossibleActions(engine.nodes[engine.root].state)]
    /\ pc' = "search"
    /\ UNCHANGED <<party, budget, rng, probe>>

NextAdvance == NextSearch \/ Advance \/ SearchAgain

SpecAdvance == InitAny /\ [][NextAdvance]_vars

-----------------------------------------------------------------------------
(* Properties of applyAction                                               *)

\* C1: applyAction never modifies the state object it is given: after the
\* call the input state (phase, next-phase hint, event queue with its
\* pending lists, battle record, every zone) is what it was before the call
InputUntouched == probe.called => probe.inp = probe.pre

\* the phase processEvents restores once the queue is empty
RecordedNextPhase(s) == IF s.nextPhase = Undef THEN "main" ELSE s.nextPhase

\* C2: PASS_EFFECT applied in effect_resolution makes progress towards an
\* empty queue: the head event, whose optional effects are now declined, is
\* gone from the queue, and once the queue is empty the phase is the
\* recorded next phase (so passing each time cannot stay in
\* effect_resolution forever)
PassEffectDrains ==
    (/\ probe.called
     /\ probe.action.type = "PASS_EFFECT"
     /\ probe.pre.phase = "effect_resolution"
     /\ Len(probe.pre.eventQueue) > 0)
    => /\ ~probe.threw
       /\ Len(probe.ret.eventQueue) < Len(probe.pre.eventQueue)
       /\ (probe.ret.eventQueue = <<>>
              => probe.ret.phase = RecordedNextPhase(probe.pre))

\* every zone of a player and the six circles, as one sequence of cards
ZoneNames ==
    <<"deck", "rideDeck", "hand", "dropZone", "damageZone", "soul", "gZone",
      "bindZone", "guardianZone", "triggerZone", "crestZone", "orderZone">>

AllCards(s, p) ==
    LET onBoard == [i \in 1..Len(FrontRowNames \o BackRowNames) |->
                        s.players[p].board[(FrontRowNames \o BackRowNames)[i]]]
        placed(c) == c # 0
    IN Flatten([i \in 1..Len(ZoneNames) |-> s.players[p][ZoneNames[i]]])
       \o Filter(onBoard, placed)

\* C3: for each player the cards over all zones and the six circles are
\* the player's cards of the game start, each exactly once
CardsConserved ==
    \A p \in PlayerIdx :
        /\ Len(AllCards(party, p)) = CardsPerPlayer
        /\ Range(AllCards(party, p)) = {CardOf(p, k) : k \in 1..CardsPerPlayer}

\* the card ids (the id field of a card) in a sequence of cards
IdsIn(cs) == {CardDef(c).id : c \in Range(cs)}

\* the card the action names is not where the action expects it
LookupFails(s, action) ==
    LET hand == Active(s).hand
        defender == Opponent(s)
    IN
    CASE action.type = "RIDE" ->
            \/ ~Has(action, "source")
            \/ action.source \notin {"hand", "rideDeck"}
            \/ action.source = "hand" /\ action.cardId \notin IdsIn(hand)
            \/ action.source = "rideDeck" /\ action.cardId \notin IdsIn(Active(s).rideDeck)
            \/ /\ action.source = "rideDeck"
               /\ (~Has(action, "discardCardId") \/ action.discardCardId \notin IdsIn(hand))
      [] action.type = "CALL" ->
            /\ Has(action, "cardIndexInHand")
            /\ (action.cardIndexInHand < 0 \/ action.cardIndexInHand >= Len(hand))
      [] action.type = "GUARD" -> action.cardInstanceId \notin Range(defender.hand)
      [] action.type = "INTERCEPT" ->
            /\ HasCircle(action.fromCircle)
            /\ defender.board[action.fromCircle] # action.cardInstanceId
      [] OTHER -> FALSE

\* C4: when the card an action names is not at the expected index or id in
\* the expected zone (RIDE, CALL, GUARD, INTERCEPT), applyAction returns a
\* state equal to the input in every field
LookupFailureReturnsInput ==
    (probe.called /\ LookupFails(probe.pre, probe.action))
    => ~probe.threw /\ probe.ret = probe.pre

\* the ACTIVATE_EFFECT names an effect that is not in the head event's
\* pending list, or there is no head event
Unmatched(s, action) ==
    \/ Len(s.eventQueue) = 0
    \/ ~s.eventQueue[1].collected
    \/ \A i \in DOMAIN s.eventQueue[1].pendingEffects :
          ~SameEffect(s.eventQueue[1].pendingEffects[i], action.effectToActivate)

\* C5: ACTIVATE_EFFECT for an effect that is not in the head event's pending
\* list (or with an empty queue) has no effect: no effect procedure runs,
\* and phase and event queue with its pending lists are as before
UnmatchedActivateHasNoEffect ==
    (/\ probe.called
     /\ probe.action.type = "ACTIVATE_EFFECT"
     /\ Unmatched(probe.pre, probe.action))
    => /\ ~probe.threw
       /\ probe.runs = <<>>
       /\ probe.ret.phase = probe.pre.phase
       /\ probe.ret.eventQueue = probe.pre.eventQueue

\* the action names a circle that Board.getCircle does not know, and the
\* applier function gets as far as looking it up
NamesUnknownCircle(s, action) ==
    CASE action.type = "CALL" ->
            /\ ~HasCircle(action.circleTag)
            /\ ~LookupFails(s, action)
      [] action.type = "MOVE" -> ~HasCircle(action.from) \/ ~HasCircle(action.to)
      [] action.type = "ATTACK" ->
            ~HasCircle(action.attacker.name) \/ ~HasCircle(action.target.name)
      [] action.type = "INTERCEPT" -> ~HasCircle(action.fromCircle)
      [] OTHER -> FALSE

\* C6: CALL, MOVE, ATTACK or INTERCEPT with a circle name other than V, R1,
\* R2, R3, R4, R5 does not raise an error and returns the state unchanged
UnknownCircleReturnsInput ==
    (probe.called /\ NamesUnknownCircle(probe.pre, probe.action))
    => ~probe.threw /\ probe.ret = probe.pre

\* C7: ACT for an effect whose energy cost exceeds the active player's
\* energy leaves the state unchanged: no effect procedure runs, the state
\* returned (energy, hand, deck, used-this-turn list and all the rest) and
\* the state given are what the state was before
UnaffordableActHasNoEffect ==
    (/\ probe.called
     /\ probe.action.type = "ACT"
     /\ probe.action.effect.cost > Active(probe.pre).energy)
    => /\ ~probe.threw
       /\ probe.runs = <<>>
       /\ probe.ret = probe.pre
       /\ probe.inp = probe.pre

UnaffordableActApplied ==
    /\ probe.called
    /\ probe.action.type = "ACT"
    /\ probe.action.effect.cost > Active(probe.pre).energy
    /\ probe.action.effect.once_per_turn
    /\ Active(probe.pre).energy > 0
    /\ pc = "play"

\* the action types applyAction has a case for
ActionUnion ==
    {"MULLIGAN", "RIDE", "PASS_RIDE_PHASE", "CALL", "ACT", "ACTIVATE_EFFECT", "MOVE",
     "ATTACK", "GUARD", "INTERCEPT", "PASS_EFFECT", "PASS_MAIN_PHASE",
     "PASS_BATTLE_PHASE", "PASS_GUARD_STEP", "PROCESS_EVENTS"}

\* C8: an action of a type outside the action union, PASS included, never
\* raises and returns a new state equal to the input in every field
UnknownTypeIsNoOpClone ==
    (probe.called /\ probe.action.type \notin ActionUnion)
    => /\ ~probe.threw
       /\ ~probe.same
       /\ probe.ret = probe.pre
       /\ probe.inp = probe.pre

\* an unknown type applied while an event waits in the queue and the phase
\* is not the recorded next phase
UnknownTypeApplied ==
    /\ probe.called
    /\ probe.action.type = "FOO"
    /\ Len(probe.pre.eventQueue) > 0
    /\ probe.pre.phase # RecordedNextPhase(probe.pre)

-----------------------------------------------------------------------------
(* Properties of the match the driver plays                                *)

\* a player has ridden from the ride deck, discarding a card and gaining the
\* crest, and a damage check has put a card into a damage zone
CardsMovedThroughZones ==
    /\ \E p \in PlayerIdx :
           /\ party.players[p].dropZone # <<>>
           /\ party.players[p].soul # <<>>
           /\ party.players[p].crestZone # <<>>
    /\ \E q \in PlayerIdx : party.players[q].damageZone # <<>>

PhaseGraph ==
    {<<"setup", "mulligan">>, <<"mulligan", "stand">>, <<"stand", "draw">>,
     <<"draw", "ride">>, <<"ride", "main">>, <<"main", "battle">>,
     <<"battle", "guard">>, <<"guard", "drive_check">>,
     <<"drive_check", "close_step">>, <<"close_step", "battle">>,
     <<"close_step", "end">>, <<"battle", "end">>, <<"end", "stand">>}

LegalPhaseChange ==
    /\ party'.phase # party.phase =>
          \/ <<party.phase, party'.phase>> \in PhaseGraph
          \/ party'.phase = "effect_resolution"
          \/ party.phase = "effect_resolution"
             /\ party'.phase = RecordedNextPhase(party)
    /\ (party.phase = "end" /\ party'.phase = "stand") =>
          party'.currentPlayerIndex = 1 - party.currentPlayerIndex
    /\ (party.phase = "battle" /\ party.turn = 1) =>
          party'.phase = "end" /\ ~probe'.called
    /\ (probe'.called /\ probe'.action.type = "ATTACK") => party.turn # 1

\* C9: every change of phase follows the graph setup, mulligan, stand,
\* draw, ride, main, battle, (guard, drive_check, close_step, battle or
\* end), end, stand of the other player, except for entering
\* effect_resolution and leaving it to the recorded next phase; on turn 1
\* battle goes directly to end and no ATTACK is applied
PhaseChangesFollowGraph == [][LegalPhaseChange]_vars

\* a second attack is open after a close step, in the second turn
BackInBattleAfterCloseStep ==
    /\ party.phase = "battle"
    /\ party.turn = 2
    /\ \E n \in Range(FrontRowNames) :
          /\ Active(party).board[n] # 0
          /\ party.cards[Active(party).board[n]].isResting
    /\ \E n \in Range(FrontRowNames) :
          /\ Active(party).board[n] # 0
          /\ ~party.cards[Active(party).board[n]].isResting

\* the pass action of a phase that has one
PassActionOf(phase) ==
    CASE phase = "ride" -> "PASS_RIDE_PHASE"
      [] phase = "main" -> "PASS_MAIN_PHASE"
      [] phase = "battle" -> "PASS_BATTLE_PHASE"
      [] phase = "guard" -> "PASS_GUARD_STEP"
      [] phase = "effect_resolution" -> "PASS_EFFECT"
      [] OTHER -> ""

\* C10: in every state the driver reaches getPossibleActions returns a
\* non-empty list, and in ride, main, battle, guard and effect_resolution
\* the list contains the pass action of the phase
PassAlwaysOffered ==
    pc \in {"play", "rideChoice"} =>
        /\ ~getPossibleActionsThrows(party)
        /\ getPossibleActions(party) # <<>>
        /\ PassActionOf(party.phase) # "" =>
              \E i \in DOMAIN getPossibleActions(party) :
                 getPossibleActions(party)[i].type = PassActionOf(party.phase)

\* the driver asks for the actions while optional effects wait
OptionalEffectsOffered ==
    /\ pc = "play"
    /\ party.phase = "effect_resolution"
    /\ Len(getPossibleActions(party)) > 1

-----------------------------------------------------------------------------
(* Properties of a battle                                                  *)

\* the driver resolves the battle in progress: the step from close_step
CloseStepResolved ==
    /\ pc = "play" /\ party.phase = "close_step"
    /\ pc' = "play" /\ party'.phase \in {"battle", "end"}

TargetOf(s) == UnitAt(s, s.currentBattle.targetCircle)
Defender(s) == 1 - s.currentPlayerIndex

\* what the claim compares: the recorded attacker power against the target's
\* base power plus its bonus power plus the shields in the guardian zone
GuardedPower(s) ==
    LET shield(c) == CardDef(c).shield IN
    CardDef(TargetOf(s)).power + s.cards[TargetOf(s)].bonusPower
    + SumSeq(s.players[Defender(s)].guardianZone, shield)

\* what a hit does: the vanguard's owner checks for damage from the deck, a
\* rear-guard leaves its circle for the drop zone
HitDealt ==
    LET opp == Defender(party)
        circle == party.currentBattle.targetCircle.name
    IN IF circle = "V"
       THEN Len(party'.players[opp].deck) < Len(party.players[opp].deck)
       ELSE /\ party'.players[opp].board[circle] = 0
            /\ TargetOf(party) \in Range(party'.players[opp].dropZone)

\* C11: close-step resolution decides the hit by one comparison: the attack
\* hits exactly when the recorded attacker power is greater than or equal to
\* the target's power plus bonus power plus the guardians' shields
HitDecidedByOneComparison ==
    [][CloseStepResolved /\ party.players[Defender(party)].deck # <<>>
         => (HitDealt <=> party.currentBattle.attackerPower >= GuardedPower(party))]_vars

\* an attack whose power equals the guarded power of its target is resolved
\* and has hit: the defender's deck is shorter than the nine cards less the
\* five drawn and the turn's draw allow without a damage check
EqualPowerAttackResolved ==
    /\ pc = "play" /\ party.phase \in {"battle", "end"} /\ party.turn = 2
    /\ party.currentPlayerIndex = 1
    /\ party.cards[party.players[1].board["V"]].isResting
    /\ CardDef(party.players[1].board["V"]).power = CardDef(party.players[0].board["V"]).power
    /\ party.players[0].damageZone # <<>>

-----------------------------------------------------------------------------
(* Properties of event resolution                                          *)

\* the zones collectEffectsForEvent looks into, with the cards of player p
\* in state s they hold
EffectZones == {"board", "rideDeck", "crestZone", "soul"}
CardsInZone(s, p, zone) ==
    IF zone = "board" THEN {s.players[p].board[n] : n \in CircleNames} \ {0}
    ELSE Range(s.players[p][zone])

\* the invocations of a call that belong to event resolution
ResolutionRuns == {i \in DOMAIN probe.runs : probe.runs[i].via # "act"}

\* run r is the effect e of a card c of the active player that was in zone z
\* when the call began, and e passes the gates for the head event
Gated(r) ==
    \E z \in EffectZones :
      \E c \in CardsInZone(probe.pre, probe.pre.currentPlayerIndex, z) :
        \E k \in DOMAIN CardDef(c).effects :
          LET e == CardDef(c).effects[k] IN
          /\ CardDef(c).id = r.cardId
          /\ e.function_index = r.function_index
          /\ r.eventType \in {"ON_RIDE", "ON_RIDE_PHASE_START"}
          /\ e.trigger = (IF r.eventType = "ON_RIDE" THEN "on_ride"
                          ELSE "on_ride_phase_start")
          /\ e.zone \in {"", z}
          /\ evaluateCondition(e.condition, probe.pre)
          /\ r.via = "auto" => e.mandatory
          /\ r.via = "activate" =>
                /\ probe.action.type = "ACTIVATE_EFFECT"
                /\ probe.action.effectToActivate.cardId = r.cardId
                /\ probe.action.effectToActivate.effect.function_index = r.function_index

\* C12: every effect procedure invoked during event resolution belongs to a
\* card of the active player on the board, in the ride deck, in the crest
\* zone or in the soul, its trigger is the head event's type in lower case,
\* its zone restriction is the card's zone, its condition holds, and an
\* optional effect is invoked only by the ACTIVATE_EFFECT that chooses it
InvokedEffectsAreGated ==
    probe.called => \A i \in ResolutionRuns : Gated(probe.runs[i])

\* an optional effect has been chosen and invoked, after the mandatory
\* effect of the same event resolved by itself
OptionalEffectActivated ==
    /\ probe.called /\ probe.action.type = "ACTIVATE_EFFECT"
    /\ \E i \in ResolutionRuns : probe.runs[i].via = "activate"
    /\ party.players[party.currentPlayerIndex].crestZone # <<>>

-----------------------------------------------------------------------------
(* Properties of the search engine                                         *)

\* how many cards of a sequence satisfy a test on card definitions
Heals(cs) == Cardinality({i \in DOMAIN cs : CardDef(cs[i]).trigger = "Heal"})
Triggers(cs) == Cardinality({i \in DOMAIN cs : CardDef(cs[i]).trigger # ""})
Sentinels(cs) == Cardinality({i \in DOMAIN cs : "Sentinel" \in CardDef(cs[i]).skills})

\* the opponent's cards outside hand and deck, which lie where both players
\* see them
KnownElsewhere(s, p) ==
    LET pl == s.players[p] IN
    pl.dropZone \o pl.damageZone \o pl.soul \o pl.guardianZone \o pl.triggerZone
    \o pl.bindZone \o pl.gZone \o pl.orderZone \o pl.crestZone \o pl.rideDeck
    \o boardUnits(pl.board)

\* the deck list of a player, the starter included
DeckList(p) == [k \in 1..CardsPerPlayer |-> CardOf(p, k)]

-----------------------------------------------------------------------------
(* Properties of the action generator                                      *)

\* the positions of a list of actions that hold an action of a type
OfType(actions, type) == {i \in DOMAIN actions : actions[i].type = type}

\* C14: in phase guard getPossibleActions returns exactly one
\* PASS_GUARD_STEP, one GUARD for each card in the defending player's hand
\* that has a numeric shield, one INTERCEPT for each unrested front-row unit
\* of the defending player with the Intercept skill, and nothing else
GuardActionsExact ==
    (pc = "play" /\ party.phase = "guard") =>
        LET actions == getPossibleActions(party)
            defender == party.players[1 - party.currentPlayerIndex]
            shielded == {c \in Range(defender.hand) : CardDef(c).shield # NoNum}
            ready == {n \in Range(FrontRowNames) :
                        /\ defender.board[n] # 0
                        /\ ~party.cards[defender.board[n]].isResting
                        /\ "Intercept" \in CardDef(defender.board[n]).skills}
        IN /\ Cardinality(OfType(actions, "PASS_GUARD_STEP")) = 1
           /\ Cardinality(OfType(actions, "GUARD")) = Cardinality(shielded)
           /\ {actions[i].cardInstanceId : i \in OfType(actions, "GUARD")} = shielded
           /\ Cardinality(OfType(actions, "INTERCEPT")) = Cardinality(ready)
           /\ {actions[i].fromCircle : i \in OfType(actions, "INTERCEPT")} = ready
           /\ \A i \in OfType(actions, "INTERCEPT") :
                 actions[i].cardInstanceId = defender.board[actions[i].fromCircle]
           /\ \A i \in DOMAIN actions :
                 actions[i].type \in {"PASS_GUARD_STEP", "GUARD", "INTERCEPT"}

\* a guard step in which the defender holds a card without a shield and has
\* a rear-guard that can intercept next to a vanguard that cannot
GuardStepWithInterceptor ==
    /\ pc = "play" /\ party.phase = "guard"
    /\ LET defender == party.players[1 - party.currentPlayerIndex] IN
       /\ \E c \in Range(defender.hand) : CardDef(c).shield = NoNum
       /\ OfType(getPossibleActions(party), "INTERCEPT") # {}
       /\ OfType(getPossibleActions(party), "GUARD") # {}

\* C15: in phase mulligan, for a hand of size N of the active player,
\* getPossibleActions returns exactly 2^N MULLIGAN actions whose redraw
\* indices are pairwise distinct subsets of 0..N-1, the empty set and the
\* full set among them.  The hand is that of the active player in any state
\* of a game, so that N takes every size a hand has there.
MulliganSubsetsExact ==
    LET N == Len(Active(party).hand)
        actions == getPossibleActions([party EXCEPT !.phase = "mulligan"])
        subsets == {Range(actions[i].cardIndicesToRedraw) : i \in DOMAIN actions}
    IN /\ Len(actions) = 2 ^ N
       /\ \A i \in DOMAIN actions :
             /\ actions[i].type = "MULLIGAN"
             /\ Range(actions[i].cardIndicesToRedraw) \subseteq 0..(N - 1)
             /\ Cardinality(Range(actions[i].cardIndicesToRedraw))
                    = Len(actions[i].cardIndicesToRedraw)
       /\ Cardinality(subsets) = Len(actions)
       /\ {} \in subsets
       /\ 0..(N - 1) \in subsets

\* the first player has applied a mulligan of two cards taken from the list
\* and the second player, holding five cards, is offered the list in turn
MulliganChosenFromList ==
    /\ pc = "play" /\ party.phase = "mulligan" /\ party.currentPlayerIndex = 1
    /\ Len(Active(party).hand) = StartHandSize
    /\ Len(getPossibleActions(party)) = 32
    /\ probe.called /\ probe.action.type = "MULLIGAN"
    /\ Len(probe.action.cardIndicesToRedraw) = 2

-----------------------------------------------------------------------------
(* Properties of the checks                                                *)

\* the driver's drive-check step, made by the attacking vanguard's owner
DriveCheckMade ==
    /\ pc = "play" /\ party.phase = "drive_check"
    /\ pc' = "play" /\ party'.phase = "close_step"
    /\ party.currentBattle.attackerCircle.name = "V"

\* the damage check of a close step whose attack hit the vanguard
DamageCheckMade ==
    /\ CloseStepResolved
    /\ party.currentBattle.targetCircle.name = "V"
    /\ party.currentBattle.attackerPower >= GuardedPower(party)

\* player p makes a check in this step and the card revealed, the top card
\* of the deck, is a heal trigger
HealRevealed(p) ==
    /\ \/ DriveCheckMade /\ p = party.currentPlayerIndex
       \/ DamageCheckMade /\ p = Defender(party)
    /\ party.players[p].deck # <<>>
    /\ CardDef(party.players[p].deck[Len(party.players[p].deck)]).trigger = "Heal"

\* the last card of p's damage zone has gone to p's drop zone
Healed(p) ==
    /\ party.players[p].damageZone # <<>>
    /\ LET healedCard == party.players[p].damageZone[Len(party.players[p].damageZone)] IN
       /\ healedCard \in Range(party'.players[p].dropZone)
       /\ healedCard \notin Range(party'.players[p].damageZone)

\* the units on p's board
UnitsOf(s, p) == {s.players[p].board[n] : n \in CircleNames} \ {0}

\* the unit of p's board the player's answer names has 10000 more bonus
\* power and nothing else changed; an answer that names no unit chooses none
BonusGivenToChosen(p) ==
    \/ \E u \in UnitsOf(party, p) :
          party'.cards = [party.cards EXCEPT ![u].bonusPower = @ + 10000]
    \/ party'.cards = party.cards

\* C16 as stated: a revealed heal trigger moves one card from the damage
\* zone to the drop zone exactly when the checking player's damage count is
\* greater than or equal to the opponent's, and the chosen unit of the
\* checking player gets +10000 power either way
HealWheneverNotBehind ==
    [][\A p \in PlayerIdx : HealRevealed(p) =>
          /\ Healed(p) <=> Len(party.players[p].damageZone)
                              >= Len(party.players[1 - p].damageZone)
          /\ BonusGivenToChosen(p)]_vars

\* C16: a revealed heal trigger moves the last card of the checking player's
\* damage zone to the drop zone exactly when that zone is not empty and
\* holds at least as many cards as the opponent's; either way the chosen
\* unit gets +10000 power
HealWhenDamagedAndNotBehind ==
    [][\A p \in PlayerIdx : HealRevealed(p) =>
          /\ Healed(p) <=> /\ Len(party.players[p].damageZone)
                                >= Len(party.players[1 - p].damageZone)
                            /\ Len(party.players[p].damageZone) > 0
          /\ BonusGivenToChosen(p)]_vars

\* the first player, hit twice in turn 2, has revealed a heal trigger in the
\* second damage check: the first damage is in the drop zone, the trigger
\* in the damage zone, and the vanguard has the bonus
HealedInDamageCheck ==
    /\ pc = "play" /\ party.turn = 2 /\ party.phase \in {"battle", "end"}
    /\ Len(party.players[0].damageZone) = 1
    /\ CardDef(party.players[0].damageZone[1]).trigger = "Heal"
    /\ Len(party.players[0].dropZone) = 1
    /\ party.players[0].soul = <<>>
    /\ UnitsOf(party, 0) = {CardOf(0, 1)}
    /\ Len(party.players[0].deck) = Len(MainDeckKinds) - StartHandSize - 3
    /\ party.players[1].damageZone = <<>>
    /\ party.cards[CardOf(0, 1)].bonusPower = 10000

\* the unit behind the attacking circle, 0 when there is none
BoosterOf(s) ==
    LET front == s.currentBattle.attackerCircle.name
        back == IF front = "R1" THEN "R3" ELSE IF front = "V" THEN "R4" ELSE "R5"
    IN s.players[s.currentPlayerIndex].board[back]

\* power and bonus power of a unit
PowerOf(s, c) == CardDef(c).power + s.cards[c].bonusPower

\* the driver applies an ATTACK with boost and there is a unit to boost
BoostedAttackApplied ==
    /\ pc = "play" /\ party.phase = "battle" /\ pc' = "play"
    /\ probe'.called /\ probe'.action.type = "ATTACK" /\ probe'.action.boost
    /\ party'.currentBattle.set
    /\ BoosterOf(party') # 0

\* the close step of a boosted attack on a rear-guard nobody guards, strong
\* enough for it; the booster of a battle is the rested unit behind the
\* attacker
BoostedAttackResolved ==
    /\ CloseStepResolved
    /\ party.currentBattle.targetCircle.name # "V"
    /\ party.players[Defender(party)].guardianZone = <<>>
    /\ BoosterOf(party) # 0 /\ party.cards[BoosterOf(party)].isResting
    /\ party.currentBattle.attackerPower >= PowerOf(party, TargetOf(party))

\* C17: a boosted attack on an opposing rear-guard that nobody guards, with
\* attacker plus booster power at least the rear-guard's, carried through
\* ATTACK, PASS_GUARD_STEP, the drive-check step and the close step, ends
\* with the rear-guard in the opponent's drop zone, its circle empty, and
\* the attacker and the booster rested
BoostedAttackRetiresRearGuard ==
    [][/\ BoostedAttackApplied =>
            LET a == UnitAt(party', party'.currentBattle.attackerCircle)
                b == BoosterOf(party')
            IN /\ party'.currentBattle.attackerPower = PowerOf(party, a) + PowerOf(party, b)
               /\ party'.cards[a].isResting /\ party'.cards[b].isResting
       /\ BoostedAttackResolved =>
            LET a == UnitAt(party, party.currentBattle.attackerCircle)
                circle == party.currentBattle.targetCircle.name
            IN /\ TargetOf(party) \in Range(party'.players[Defender(party)].dropZone)
               /\ party'.players[Defender(party)].board[circle] = 0
               /\ party'.cards[a].isResting
               /\ party'.cards[BoosterOf(party)].isResting]_vars

\* the second player's boosted vanguard has retired the rear-guard the first
\* player called: the card lies in the drop zone, no damage was dealt, and
\* the vanguard and its booster are rested
RearGuardRetiredByBoostedAttack ==
    /\ pc = "play" /\ party.turn = 2 /\ party.phase \in {"battle", "end"}
    /\ party.players[0].dropZone = <<CardOf(0, 4)>>
    /\ party.players[0].damageZone = <<>>
    /\ party.players[0].soul = <<>>
    /\ UnitsOf(party, 0) = {CardOf(0, 1)}
    /\ party.players[1].board["R4"] # 0
    /\ party.cards[party.players[1].board["R4"]].isResting
    /\ party.cards[party.players[1].board["V"]].isResting

\* C18: whenever close-step resolution finds a hit against the opposing
\* vanguard, the defender makes as many damage checks as the attacker's
\* critical plus bonus critical: that many cards, or all that remain of a
\* shorter deck, move from the top of the defender's deck into the
\* defender's damage zone, with or without a readline interface
VanguardHitChecksDamage ==
    [][CloseStepResolved
       /\ party.currentBattle.targetCircle.name = "V"
       /\ party.currentBattle.attackerPower >= GuardedPower(party)
         => LET opp == Defender(party)
                deck == party.players[opp].deck
                a == UnitAt(party, party.currentBattle.attackerCircle)
                critical == CardDef(a).critical + party.cards[a].bonusCritical
                n == IF critical < Len(deck) THEN critical ELSE Len(deck)
            IN /\ party'.players[opp].deck = SubSeq(deck, 1, Len(deck) - n)
               /\ \A i \in (Len(deck) - n + 1)..Len(deck) :
                     deck[i] \in Range(party'.players[opp].damageZone)]_vars

-----------------------------------------------------------------------------
(* Properties of the event queue                                           *)

\* the state a driver's call hands to processEvents: the queue as the ride
\* phase's start and the action have filled it
Enqueued ==
    IF probe.action.type = "RIDE" THEN applyRide(probe.pre, probe.action).st
    ELSE probe.pre

\* the effects an event of that queue has pending when its turn comes; the
\* procedures that run before it is collected move no card with an effect
\* for it
PendingOf(e, mid) ==
    IF e.collected THEN e.pendingEffects ELSE collectEffectsForEvent(e, mid)

AutoRunsOf(e, mid) ==
    LET mandatory == SelectSeq(PendingOf(e, mid), IsMandatory) IN
    [k \in 1..Len(mandatory) |->
        Run(mandatory[k].effect.function_index, mandatory[k].cardId, "auto", e.type, FALSE)]

RECURSIVE AutoRunsUpTo(_, _, _)
\* the runs of the first n events of the queue, in the order of the queue
AutoRunsUpTo(queue, mid, n) ==
    IF n = 0 THEN <<>>
    ELSE AutoRunsUpTo(queue, mid, n - 1) \o AutoRunsOf(queue[n], mid)

EventsProcessed ==
    /\ probe.called /\ probe.by = "driver" /\ ~probe.threw
    /\ probe.action.type \in {"RIDE", "PASS_RIDE_PHASE", "PASS_MAIN_PHASE",
                              "PASS_BATTLE_PHASE", "PASS_GUARD_STEP"}

\* C19: during event resolution each mandatory pending effect collected for
\* an event is invoked exactly once, one at a time, and is absent from the
\* head event's pending list when its procedure runs; an event leaves the
\* queue only when its pending list is empty, and the events are handled in
\* the order they were enqueued
MandatoryEffectsResolvedInOrder ==
    EventsProcessed =>
      LET mid == Enqueued
          before == mid.eventQueue
          after == probe.ret.eventQueue
          removed == Len(before) - Len(after)
          reached == IF after = <<>> THEN removed ELSE removed + 1
      IN /\ removed >= 0
         /\ \A i \in 1..removed :
               \A k \in DOMAIN PendingOf(before[i], mid) :
                   IsMandatory(PendingOf(before[i], mid)[k])
         /\ \A i \in DOMAIN after :
               /\ after[i].type = before[removed + i].type
               /\ after[i].target = before[removed + i].target
               /\ i > 1 => after[i] = before[removed + i]
         /\ after # <<>> =>
               /\ after[1].collected
               /\ after[1].pendingEffects
                    = SelectSeq(PendingOf(before[removed + 1], mid), IsOptional)
               /\ after[1].pendingEffects # <<>>
               /\ probe.ret.phase = "effect_resolution"
         /\ SelectSeq(probe.runs, LAMBDA r : r.via = "auto")
              = AutoRunsUpTo(before, mid, reached)

\* a ride has found the ride phase's event waiting and enqueued its own: the
\* first event had nothing pending and is gone, the mandatory effect of the
\* second ran by itself and its optional effect keeps it at the head of the
\* queue
MandatoryEffectRunBeforeChoice ==
    /\ EventsProcessed /\ probe.action.type = "RIDE"
    /\ Len(probe.pre.eventQueue) = 1
    /\ probe.pre.eventQueue[1].type = "ON_RIDE_PHASE_START"
    /\ \E i \in DOMAIN probe.runs :
          probe.runs[i].via = "auto" /\ probe.runs[i].eventType = "ON_RIDE"
    /\ Len(probe.ret.eventQueue) = 1
    /\ probe.ret.eventQueue[1].type = "ON_RIDE"
    /\ probe.ret.eventQueue[1].pendingEffects # <<>>

-----------------------------------------------------------------------------
(* Properties of a ride                                                    *)

\* the first card of a zone that bears the id, 0 when there is none
FirstWithId(cs, id) ==
    IF \E i \in DOMAIN cs : CardDef(cs[i]).id = id
    THEN cs[CHOOSE i \in DOMAIN cs :
                /\ CardDef(cs[i]).id = id
                /\ \A j \in 1..(i - 1) : CardDef(cs[j]).id # id]
    ELSE 0

\* a zone without one of its cards
Without(cs, c) == SelectSeq(cs, LAMBDA x : x # c)

\* the card a RIDE names in its source, 0 when the ride is not valid
RiddenCard(s, action) ==
    LET player == s.players[s.currentPlayerIndex] IN
    IF action.source = "hand" THEN FirstWithId(player.hand, action.cardId)
    ELSE IF FirstWithId(player.hand, action.discardCardId) = 0 THEN 0
    ELSE FirstWithId(player.rideDeck, action.cardId)

RideApplied ==
    /\ probe.called /\ probe.by = "driver" /\ ~probe.threw
    /\ probe.action.type = "RIDE"
    /\ RiddenCard(probe.pre, probe.action) # 0

\* C20: applying a valid RIDE removes the chosen card from its source (hand
\* or ride deck) and makes it the unit on circle V; the previous vanguard is
\* appended to the soul and exactly one ON_RIDE event with payload [previous
\* vanguard, new vanguard] is enqueued; for a ride-deck source the named
\* hand card is moved to the drop zone; once the event queue has drained the
\* phase is main
RideMovesCardsAndEnqueuesOnRide ==
    RideApplied =>
      LET pre == probe.pre
          p == pre.currentPlayerIndex
          before == pre.players[p]
          new == RiddenCard(pre, probe.action)
          old == before.board["V"]
          rode == applyRide(pre, probe.action).st
          after == rode.players[p]
          fromHand == probe.action.source = "hand"
          discarded == FirstWithId(before.hand, probe.action.discardCardId)
      IN /\ after.board["V"] = new
         /\ probe.ret.players[p].board["V"] = new
         /\ IF fromHand
            THEN /\ after.hand = Without(before.hand, new)
                 /\ after.rideDeck = before.rideDeck
                 /\ after.dropZone = before.dropZone
            ELSE /\ after.rideDeck = Without(before.rideDeck, new)
                 /\ after.hand = Without(before.hand, discarded)
                 /\ after.dropZone = Append(before.dropZone, discarded)
                 /\ discarded \in Range(probe.ret.players[p].dropZone)
         /\ old # 0 =>
               /\ after.soul = Append(before.soul, old)
               /\ probe.ret.players[p].soul = Append(before.soul, old)
               /\ rode.eventQueue
                    = Append(pre.eventQueue, Event("ON_RIDE", <<old, new>>))
         /\ old = 0 => rode.eventQueue = pre.eventQueue
         /\ probe.ret.eventQueue = <<>> => probe.ret.phase = "main"

\* the first player has ridden from the ride deck at the cost of a hand
\* card; the event of the ride found no effect left to choose and the phase
\* is main
RodeFromRideDeck ==
    /\ RideApplied /\ probe.action.source = "rideDeck"
    /\ probe.pre.players[probe.pre.currentPlayerIndex].board["V"] # 0
    /\ probe.ret.players[probe.pre.currentPlayerIndex].dropZone # <<>>
    /\ probe.ret.eventQueue = <<>>
    /\ probe.ret.phase = "main"

-----------------------------------------------------------------------------
(* Properties of an attack                                                 *)

\* the back circle the rules pair with a front circle: R1-R3, V-R4, R2-R5
PairedBackCircle(name) ==
    IF name = "R1" THEN "R3" ELSE IF name = "V" THEN "R4" ELSE "R5"

AttackApplied ==
    /\ probe.called /\ probe.by = "driver" /\ ~probe.threw
    /\ probe.action.type = "ATTACK"
    /\ probe.pre.players[probe.pre.currentPlayerIndex].board[probe.action.attacker.name] # 0
    /\ probe.pre.players[1 - probe.pre.currentPlayerIndex].board[probe.action.target.name] # 0

\* the unit that boosts the attack, 0 when there is none
BoosterIn(pre, action) ==
    IF action.boost
    THEN pre.players[pre.currentPlayerIndex].board[PairedBackCircle(action.attacker.name)]
    ELSE 0

\* C21: applying ATTACK with occupied attacker and target circles rests the
\* attacker, records a battle whose attacker power is the attacker's base
\* plus bonus power, plus the base plus bonus power of the unit on the
\* attacker's paired back circle (R1-R3, V-R4, R2-R5) when the action boosts
\* and that circle is occupied, rests that booster, records the attacker and
\* target circles, and sets the phase to guard; nothing else changes
AttackRecordsBattleOnly ==
    AttackApplied =>
      LET pre == probe.pre
          idx == pre.currentPlayerIndex
          a == pre.players[idx].board[probe.action.attacker.name]
          b == BoosterIn(pre, probe.action)
          rested == [c \in DOMAIN pre.cards |->
                        IF c = a \/ c = b
                        THEN [pre.cards[c] EXCEPT !.isResting = TRUE]
                        ELSE pre.cards[c]]
          power == PowerOf(pre, a) + (IF b # 0 THEN PowerOf(pre, b) ELSE 0)
      IN probe.ret = [pre EXCEPT
                        !.cards = rested,
                        !.currentBattle =
                            [set |-> TRUE,
                             attackerCircle |-> [owner |-> idx,
                                                 name |-> probe.action.attacker.name],
                             targetCircle |-> [owner |-> 1 - idx,
                                               name |-> probe.action.target.name],
                             attackerPower |-> power],
                        !.phase = "guard"]

\* a boosted attack of the vanguard has been applied: the unit behind it
\* adds its power to the battle
BoostedAttackRecorded ==
    /\ AttackApplied /\ probe.action.boost
    /\ BoosterIn(probe.pre, probe.action) # 0
    /\ probe.ret.currentBattle.attackerPower
         > PowerOf(probe.pre, probe.pre.players[probe.pre.currentPlayerIndex]
                                  .board[probe.action.attacker.name])

-----------------------------------------------------------------------------
(* Properties of the end of a battle                                       *)

\* C22: after close-step resolution, whether the attack hit or not, the
\* defender's guardian zone is empty, every card that was in it is in the
\* defender's drop zone, and the battle record is cleared; hence the
\* guardian zone is empty in every state whose phase is not guard,
\* drive_check or close_step
GuardiansRetiredAfterBattle ==
    /\ [][CloseStepResolved =>
            LET opp == Defender(party) IN
            /\ party'.players[opp].guardianZone = <<>>
            /\ Range(party.players[opp].guardianZone)
                 \subseteq Range(party'.players[opp].dropZone)
            /\ ~party'.currentBattle.set]_vars
    /\ [](party.phase \notin {"guard", "drive_check", "close_step"}
            => \A p \in {0, 1} : party.players[p].guardianZone = <<>>)

\* an attack that a guardian stopped has been resolved: the guardian lies in
\* the first player's drop zone, who took no damage, the guardian zone is
\* empty and no battle is recorded
GuardianRetiredAfterFailedAttack ==
    /\ pc = "play" /\ party.turn = 2 /\ party.phase \in {"battle", "end"}
    /\ ~party.currentBattle.set
    /\ party.cards[party.players[1].board["V"]].isResting
    /\ party.players[0].damageZone = <<>>
    /\ party.players[0].guardianZone = <<>>
    /\ party.players[0].soul = <<>>
    /\ \E c \in Range(party.players[0].dropZone) : CardDef(c).shield # NoNum
    /\ Len(party.players[0].dropZone) = 1
    /\ Len(party.players[0].hand) = StartHandSize

\* C23: after close-step resolution the phase is end when no unrested unit
\* remains on the attacking player's front row (R1, V, R2), and battle
\* otherwise
PhaseAfterBattleFollowsAttackers ==
    [][pc = "play" /\ party.phase = "close_step" /\ pc' = "play"
         => LET board == party'.players[party.currentPlayerIndex].board
                standing == {n \in {"R1", "V", "R2"} :
                                board[n] # 0 /\ ~party'.cards[board[n]].isResting}
            IN party'.phase = IF standing = {} THEN "end" ELSE "battle"]_vars

\* the vanguard's battle is over and a rear-guard of the front row still
\* stands: the phase is battle again
BattleGoesOnWithStandingRearGuard ==
    /\ pc = "play" /\ party.phase = "battle" /\ ~party.currentBattle.set
    /\ party.cards[Active(party).board["V"]].isResting
    /\ \E n \in {"R1", "R2"} :
          Active(party).board[n] # 0 /\ ~party.cards[Active(party).board[n]].isResting

-----------------------------------------------------------------------------
(* Properties of ACT effects                                               *)

UsedBy(s, p) == Range(s.players[p].usedTurnlyEffects)

\* the ACT actions of the list for the effect index
ActsFor(actions, fi) ==
    {i \in DOMAIN actions :
        actions[i].type = "ACT" /\ actions[i].effect.function_index = fi}

\* the driver applies an ACT of a once-per-turn effect in the main phase
ActApplied ==
    /\ pc = "play" /\ party.phase = "main" /\ pc' = "play"
    /\ probe'.called /\ probe'.action.type = "ACT"
    /\ probe'.action.effect.once_per_turn

\* C24: driving the game with generated actions, a once-per-turn ACT effect
\* is applied at most once per player per turn: once ACT succeeds for an
\* effect index, getPossibleActions offers no ACT for that index to that
\* player until the used-this-turn lists are reset at the turn-cycle
\* boundary, and an ACT that fails for unaffordable cost does not consume
\* the once-per-turn use
OncePerTurnActUsedOnce ==
    /\ [][LET p == party.currentPlayerIndex
              fi == probe'.action.effect.function_index
              paid == ActApplied /\ ~probe'.same
              refused == ActApplied /\ probe'.same
              reset == /\ party.phase = "end" /\ p = 1
                       /\ \A q \in {0, 1} : party'.players[q].usedTurnlyEffects = <<>>
              kept == \A q \in {0, 1} :
                        party'.players[q].usedTurnlyEffects
                          = party.players[q].usedTurnlyEffects
          IN /\ paid \/ reset \/ kept
             /\ paid => /\ fi \notin UsedBy(party, p)
                        /\ party'.players[p].usedTurnlyEffects
                             = Append(party.players[p].usedTurnlyEffects, fi)
                        /\ party'.players[1 - p].usedTurnlyEffects
                             = party.players[1 - p].usedTurnlyEffects
                        /\ ActsFor(getPossibleActions(party'), fi) = {}
             /\ refused => /\ kept
                           /\ ActsFor(getPossibleActions(party'), fi) # {}]_vars
    /\ [](pc = "play" /\ party.phase = "main" =>
            \A fi \in UsedBy(party, party.currentPlayerIndex) :
                ActsFor(getPossibleActions(party), fi) = {})

\* the second player, who could not pay for the effect in an earlier turn,
\* has paid for it in the last turn: the effect is marked as used and no
\* ACT is offered for it
ActPaidOnce ==
    /\ pc = "play" /\ party.phase = "main" /\ party.currentPlayerIndex = 1
    /\ probe.called /\ probe.action.type = "ACT" /\ ~probe.same
    /\ party.players[1].usedTurnlyEffects # <<>>
    /\ party.players[1].crestZone # <<>>
    /\ ActsFor(getPossibleActions(party), probe.action.effect.function_index) = {}

-----------------------------------------------------------------------------
(* Properties of the ride phase's actions                                  *)

\* C25: in phase ride, getPossibleActions returns one RIDE from hand per
\* distinct card id among the hand cards whose grade is the vanguard's or
\* one more; when the ride deck holds a card of the vanguard's grade plus
\* one, one RIDE from the ride deck for that card per distinct name in the
\* hand as discard (none when the hand is empty); and exactly one
\* PASS_RIDE_PHASE, last; no other action
RideActionsExact ==
    party.phase = "ride" =>
      LET actions == getPossibleActions(party)
          player == Active(party)
          grade == CardDef(player.board["V"]).grade
          handIds == {CardDef(c).id : c \in {h \in Range(player.hand) :
                                                CardDef(h).grade \in {grade, grade + 1}}}
          names == {CardDef(c).name : c \in Range(player.hand)}
          nextInDeck == {i \in DOMAIN player.rideDeck :
                            CardDef(player.rideDeck[i]).grade = grade + 1}
          first == CHOOSE i \in nextInDeck : \A k \in nextInDeck : i <= k
          fromHand == {i \in DOMAIN actions :
                          actions[i].type = "RIDE" /\ actions[i].source = "hand"}
          fromDeck == {i \in DOMAIN actions :
                          actions[i].type = "RIDE" /\ actions[i].source = "rideDeck"}
          discardName(i) ==
              {CardDef(c).name : c \in {h \in Range(player.hand) :
                                           CardDef(h).id = actions[i].discardCardId}}
      IN /\ actions # <<>>
         /\ actions[Len(actions)] = [type |-> "PASS_RIDE_PHASE"]
         /\ DOMAIN actions = fromHand \cup fromDeck \cup {Len(actions)}
         /\ {actions[i].cardId : i \in fromHand} = handIds
         /\ Cardinality(fromHand) = Cardinality(handIds)
         /\ \A i \in fromHand : DOMAIN actions[i] = {"type", "cardId", "source"}
         /\ nextInDeck = {} => fromDeck = {}
         /\ nextInDeck # {} =>
               /\ \A i \in fromDeck :
                     /\ actions[i].cardId = CardDef(player.rideDeck[first]).id
                     /\ Cardinality(discardName(i)) = 1
               /\ UNION {discardName(i) : i \in fromDeck} = names
               /\ Cardinality(fromDeck) = Cardinality(names)

\* a ride phase in which rides from the hand and from the ride deck are both
\* offered, with fewer discards than hand cards
RidesFromHandAndRideDeckOffered ==
    /\ pc = "rideChoice" /\ party.phase = "ride"
    /\ \E i, j \in DOMAIN getPossibleActions(party) :
          /\ getPossibleActions(party)[i].type = "RIDE"
          /\ getPossibleActions(party)[i].source = "hand"
          /\ getPossibleActions(party)[j].type = "RIDE"
          /\ getPossibleActions(party)[j].source = "rideDeck"
    /\ Len(getPossibleActions(party)) < 2 * Len(Active(party).hand) + 1

-----------------------------------------------------------------------------
(* Properties of the battle phase's actions                                *)

\* the attacks the claim lists: attacker circle, target circle, boost
AttacksToOffer(s) ==
    LET own == Active(s).board
        other == Opponent(s).board
        standing == {n \in {"R1", "V", "R2"} : own[n] # 0 /\ ~s.cards[own[n]].isResting}
        targets == {n \in {"R1", "V", "R2"} : other[n] # 0}
        boosted(n) ==
            LET b == own[PairedBackCircle(n)] IN
            b # 0 /\ ~s.cards[b].isResting /\ "Boost" \in CardDef(b).skills
    IN {<<a, g, FALSE>> : a \in standing, g \in targets}
       \cup {<<a, g, TRUE>> : a \in {n \in standing : boosted(n)}, g \in targets}

\* C26: in phase battle, getPossibleActions returns, for each unrested unit
\* of the active player's front row and each occupied circle of the
\* opponent's front row, one unboosted ATTACK, plus one boosted ATTACK when
\* the attacker's paired back circle holds an unrested unit with the Boost
\* skill; no rested unit attacks and no empty circle is a target; the list
\* ends with the only PASS_BATTLE_PHASE
BattleActionsExact ==
    party.phase = "battle" =>
      LET actions == getPossibleActions(party)
          attacks == OfType(actions, "ATTACK")
      IN /\ actions # <<>>
         /\ actions[Len(actions)] = [type |-> "PASS_BATTLE_PHASE"]
         /\ DOMAIN actions = attacks \cup {Len(actions)}
         /\ {<<actions[i].attacker.name, actions[i].target.name, actions[i].boost>> :
                i \in attacks} = AttacksToOffer(party)
         /\ Cardinality(attacks) = Cardinality(AttacksToOffer(party))
         /\ \A i \in attacks :
               /\ actions[i].attacker.card = Active(party).board[actions[i].attacker.name]
               /\ actions[i].target.card = Opponent(party).board[actions[i].target.name]

\* a battle phase in which a boosted and an unboosted attack are offered for
\* the vanguard
BoostedAttackOffered ==
    /\ pc = "play" /\ party.phase = "battle" /\ party.turn = 2
    /\ <<"V", "V", TRUE>> \in AttacksToOffer(party)
    /\ \E i \in OfType(getPossibleActions(party), "ATTACK") :
          getPossibleActions(party)[i].boost

-----------------------------------------------------------------------------
(* Properties of the mulligan                                              *)

MulliganApplied ==
    /\ probe.called /\ probe.by = "driver" /\ ~probe.threw
    /\ probe.action.type = "MULLIGAN"
    /\ Len(probe.pre.players[probe.pre.currentPlayerIndex].deck)
         >= Len(probe.action.cardIndicesToRedraw)

\* C27: applying MULLIGAN with redraw-index set S to a hand of size N, when
\* the deck holds at least |S| cards, yields a hand of size N that still
\* contains every card whose index is not in S, and leaves the multiset of
\* the player's hand and deck together unchanged; the first mulligan hands
\* over to player 2 still in phase mulligan, the second sets phase stand
\* with player 1 active, so each player mulligans exactly once
MulliganRedrawsAndHandsOver ==
    /\ [](MulliganApplied =>
            LET idx == probe.pre.currentPlayerIndex
                before == probe.pre.players[idx]
                after == probe.ret.players[idx]
                S == Range(probe.action.cardIndicesToRedraw)
            IN /\ Len(after.hand) = Len(before.hand)
               /\ \A i \in DOMAIN before.hand :
                     (i - 1) \notin S => before.hand[i] \in Range(after.hand)
               /\ Range(after.hand) \cup Range(after.deck)
                    = Range(before.hand) \cup Range(before.deck)
               /\ Len(after.hand) + Len(after.deck) = Len(before.hand) + Len(before.deck)
               /\ Range(after.hand) \cap Range(after.deck) = {}
               /\ idx = 0 => probe.ret.currentPlayerIndex = 1 /\ probe.ret.phase = "mulligan"
               /\ idx = 1 => probe.ret.currentPlayerIndex = 0 /\ probe.ret.phase = "stand")
    /\ [][/\ party.phase = "mulligan" /\ party'.phase = "mulligan"
               => party.currentPlayerIndex = 0 /\ party'.currentPlayerIndex = 1
                  /\ probe'.called /\ probe'.action.type = "MULLIGAN"
          /\ pc = "play" /\ party.phase # "mulligan" => party'.phase # "mulligan"]_vars

\* the second player has redrawn two cards after the first player's
\* mulligan and the first player's stand phase is next
SecondMulliganRedrawn ==
    /\ MulliganApplied /\ probe.pre.currentPlayerIndex = 1
    /\ Len(probe.action.cardIndicesToRedraw) = 2
    /\ probe.ret.players[1].hand # probe.pre.players[1].hand
    /\ party.phase = "stand" /\ party.currentPlayerIndex = 0

-----------------------------------------------------------------------------
(* Properties of the search tree                                           *)

\* the visits of the children of a node, added up
ChildVisits(nodes, id) ==
    LET visitsOf(c) == nodes[c].visits IN SumSeq(nodes[id].children, visitsOf)

\* C28: after backpropagation from an expanded node, every node on the
\* parent chain from that node up to and including the root has had its
\* visit count incremented by exactly one and both sub-scores added to its
\* totals; so after k completed iterations the root's visit count is k and
\* equals the sum of its children's visit counts
RootVisitsCountIterations ==
    engine.built /\ engine.status # "failed" =>
        /\ engine.nodes[1].visits = engine.iterations
        /\ engine.nodes[1].visits = ChildVisits(engine.nodes, 1)

\* C29: a call to search always returns a ranked list: it runs at most 2000
\* iterations, every started iteration completes without error, also when
\* the root state is game-over or the root action list is empty, and the
\* result holds one entry per root child, ordered by non-increasing visit
\* count
SearchAlwaysReturnsRanking ==
    engine.built =>
        /\ engine.status # "failed"
        /\ engine.iterations <= IterationCap
        /\ engine.status = "returned" =>
              /\ Len(engine.returned) = Len(engine.nodes[1].children)
              /\ \A k \in DOMAIN engine.returned :
                    /\ engine.returned[k].action
                         = engine.nodes[engine.nodes[1].children[k]].action
                    /\ k > 1 => engine.returned[k - 1].depth >= engine.returned[k].depth

\* a pass of the loop of search in which _expand was called and returned
ExpandCalled ==
    /\ pc = "search" /\ engine.status = "searching"
    /\ engine'.seen.expanding
    /\ engine'.status = "searching" /\ engine'.iterations = engine.iterations + 1

\* the actions the children of a node carry
ActionsOfChildren(nodes, id) ==
    {nodes[nodes[id].children[k]].action : k \in DOMAIN nodes[id].children}

\* no two children of a node carry structurally equal actions
NoTwinChildren ==
    engine.built =>
        \A id \in DOMAIN engine.nodes :
            \A j, k \in DOMAIN engine.nodes[id].children :
                j # k => engine.nodes[engine.nodes[id].children[j]].action
                           # engine.nodes[engine.nodes[id].children[k]].action

\* the child a call of _expand on the node has added: the last of the tree,
\* carrying the first action of the list the node had no child for
ChildAdded(id) ==
    LET missing == {i \in DOMAIN engine.actions :
                       engine.actions[i] \notin ActionsOfChildren(engine.nodes, id)}
        first == CHOOSE i \in missing : \A j \in missing : i <= j
        child == Len(engine'.nodes)
    IN /\ missing # {}
       /\ Len(engine'.nodes) = Len(engine.nodes) + 1
       /\ engine'.nodes[id].children = Append(engine.nodes[id].children, child)
       /\ engine'.nodes[child].parent = id
       /\ engine'.nodes[child].action = engine.actions[first]

\* the call has added no child
NoChildAdded(id) ==
    /\ Len(engine'.nodes) = Len(engine.nodes)
    /\ engine'.nodes[id].children = engine.nodes[id].children

-----------------------------------------------------------------------------
\* the latest pass of the search simulated a child of the root and
\* _simulate returned
ChildSimulated ==
    /\ engine.built
    /\ engine.seen.scored.returned
    /\ engine.seen.simulated # 0
    /\ engine.nodes[engine.seen.simulated].parent = 1

\* the player who is active in the root of the search
RootPlayer == engine.nodes[1].state.currentPlayerIndex

-----------------------------------------------------------------------------
\* the latest call recorded is a call of _determinize
Determinized == probe.called /\ probe.by = "engine"

\* how often card c occurs in the hand and the deck of player p together
InHandOrDeck(s, p, c) ==
    Cardinality({i \in DOMAIN s.players[p].hand : s.players[p].hand[i] = c})
    + Cardinality({i \in DOMAIN s.players[p].deck : s.players[p].deck[i] = c})

\* C32: _determinize leaves the root state as it was; in the state it
\* returns every public card of the opponent's hand is still in the hand,
\* the hand has its former size, the opponent's hand and deck together hold
\* the same cards as often as before, and everything else, the searching
\* player's hand and deck included, is as in the root state
DeterminizeOnlyRedealsUnknownPool ==
    Determinized =>
        LET pre == probe.pre
            ret == probe.ret
            opp == 1 - pre.currentPlayerIndex
        IN /\ probe.inp = pre
           /\ \A i \in DOMAIN pre.players[opp].hand :
                 pre.cards[pre.players[opp].hand[i]].isPublic
                   => \E j \in DOMAIN ret.players[opp].hand :
                         ret.players[opp].hand[j] = pre.players[opp].hand[i]
           /\ Len(ret.players[opp].hand) = Len(pre.players[opp].hand)
           /\ \A c \in CardIds : InHandOrDeck(ret, opp, c) = InHandOrDeck(pre, opp, c)
           /\ [ret EXCEPT !.players[opp].hand = pre.players[opp].hand,
                          !.players[opp].deck = pre.players[opp].deck] = pre

\* a determinization that dealt the opponent another hand of the same size
\* and another deck (no card of the game is ever made public, so the hand
\* is dealt from the whole of the former hand and the deck)
OpponentHandRedealt ==
    /\ Determinized
    /\ LET pre == probe.pre
           opp == 1 - pre.currentPlayerIndex
       IN /\ probe.ret.players[opp].hand # pre.players[opp].hand
          /\ probe.ret.players[opp].deck # pre.players[opp].deck
          /\ Len(pre.players[opp].hand) = 5
          /\ Len(pre.players[pre.currentPlayerIndex].hand) > 0

-----------------------------------------------------------------------------
\* advance was called with the action of a child of the root
AdvancedToChild ==
    /\ engine.built /\ engine.status = "returned"
    /\ engine'.status = "advanced"

\* the first half of C33: advance with the action of a root child makes
\* that child the root, without parent and with its children, visits and
\* scores as they were
AdvanceToChildKeepsSubtree ==
    [][AdvancedToChild =>
         /\ engine'.root \in Range(engine.nodes[engine.root].children)
         /\ engine'.nodes[engine'.root] =
                [engine.nodes[engine'.root] EXCEPT !.parent = 0]
         /\ \A id \in DOMAIN engine.nodes :
               id # engine'.root => engine'.nodes[id] = engine.nodes[id]]_vars

\* C33: advance with the action of a root child makes that child the root
\* and keeps its subtree; after an advance that matched no child the tree
\* is discarded and a following search on the same engine builds a new tree
\* and returns scores instead of failing
SearchAfterDiscardedTreeReturns ==
    (engine.built /\ engine.root = 0) => engine.status # "failed"

-----------------------------------------------------------------------------
\* the latest call recorded is a call of evaluateCondition
Evaluated == probe.called /\ probe.by = "evaluator"

\* the leaves evaluateCondition has a meaning for
WellFormedLeaf(c) ==
    /\ c.k = "leaf"
    /\ c.field \in {"player.index", "player.energy"}
    /\ c.op \in {"===", "!==", ">=", "<="}

WellFormed(c) ==
    \/ c.k = "none"
    \/ WellFormedLeaf(c)
    \/ c.k = "bin" /\ WellFormedLeaf(c.left) /\ WellFormedLeaf(c.right)

\* C34: evaluateCondition never raises, and every condition that is
\* neither absent nor a well-formed leaf or composite evaluates to false
EvaluateConditionFailsClosed ==
    Evaluated =>
        /\ ~probe.threw
        /\ ~WellFormed(probe.action.condition) => probe.ret = FALSE

-----------------------------------------------------------------------------
\* C35: when the player is offered the ride actions, the phase is ride and
\* the ON_RIDE_PHASE_START event the driver queued has been processed by
\* the PROCESS_EVENTS action: it has left the queue (its mandatory effects
\* were applied while it was processed)
RidePhaseStartEventProcessed ==
    pc = "rideChoice" =>
        /\ party.phase = "ride"
        /\ \A i \in DOMAIN party.eventQueue :
              party.eventQueue[i].type # "ON_RIDE_PHASE_START"

-----------------------------------------------------------------------------
\* the driver applied a CALL action that getPossibleActions returned
CallApplied ==
    /\ probe.called /\ probe.by = "driver"
    /\ probe.action.type = "CALL"

\* C36: applying a CALL action of the main phase takes out of the hand the
\* card whose instance id the action carries, a card with power and of a
\* grade that is at most the vanguard's, puts it on the rear circle the
\* action names, and moves the unit that was on the circle to the drop zone
CallPlacesTheCardNamed ==
    CallApplied =>
        LET pre == probe.pre
            ret == probe.ret
            p == pre.currentPlayerIndex
            card == probe.action.cardInstanceId
            circle == probe.action.circleTag
            old == pre.players[p].board[circle]
        IN /\ CardDef(card).power # NoNum
           /\ Num(CardDef(card).grade) <= Num(CardDef(pre.players[p].board["V"]).grade)
           /\ ret.players[p].hand = Without(pre.players[p].hand, card)
           /\ ret.players[p].board = [pre.players[p].board EXCEPT ![circle] = card]
           /\ ret.players[p].dropZone =
                 IF old = 0 THEN pre.players[p].dropZone
                 ELSE Append(pre.players[p].dropZone, old)

-----------------------------------------------------------------------------
\* C37: when the close step is about to be resolved, the target circle of
\* the battle record still holds a unit and so does the attacker circle: no
\* GUARD, INTERCEPT or PASS_GUARD_STEP of the guard step has taken the
\* attacked unit from its circle, and applyCloseStep does not fail on an
\* empty circle
CloseStepFindsBothUnits ==
    (pc = "play" /\ party.phase = "close_step") =>
        /\ party.currentBattle.set
        /\ UnitAt(party, party.currentBattle.targetCircle) # 0
        /\ UnitAt(party, party.currentBattle.attackerCircle) # 0
        /\ ~applyCloseStep(party, TRUE, NoNum, NoNum).threw

-----------------------------------------------------------------------------
\* a player has six or more cards in the damage zone
SixDamage == \E p \in PlayerIdx : Len(party.players[p].damageZone) >= DamageLimit

\* the driver is about to ask a player for an action
AsksForAction ==
    \/ pc = "rideChoice"
    \/ /\ pc = "play"
       /\ \/ party.phase \in {"mulligan", "ride", "main", "guard", "effect_resolution"}
          \/ party.phase = "battle" /\ party.turn # 1

-----------------------------------------------------------------------------
\* the battle of the state is over: the record is cleared and the phase is
\* battle or end
BattleResolved(s) == ~s.currentBattle.set /\ s.phase \in {"battle", "end"}

RECURSIVE battleResolvedWithin(_, _, _, _, _)
\* the loop of _simulate, followed until it stops or the battle is over
battleResolvedWithin(currentState, turnCount, attacksThisTurn, lastPlayerIndex, r) ==
    IF BattleResolved(currentState) THEN TRUE
    ELSE IF isGameOver(currentState) \/ turnCount >= MaxRollout THEN FALSE
    ELSE The({ /\ step.goesOn
               /\ battleResolvedWithin(step.st, turnCount + 1, step.attacksThisTurn,
                                       currentState.currentPlayerIndex, r) :
               step \in {rolloutStep(currentState, attacksThisTurn, lastPlayerIndex, r)} })

\* C39: a rollout that starts in the guard step of a declared attack
\* resolves the attack: within the depth cap it reaches a state whose
\* battle record is cleared and whose phase is battle or end
RolloutResolvesDeclaredAttack ==
    (pc = "play" /\ party.phase = "guard" /\ party.currentBattle.set) =>
        \A r \in RandStreams : battleResolvedWithin(cloneDeep(party), 0, 0, -1, r)

-----------------------------------------------------------------------------
\* the front-row circles of the active player that hold an unrested unit
StandingFront(s) ==
    {n \in Range(FrontRowNames) :
        /\ Active(s).board[n] # 0
        /\ ~s.cards[Active(s).board[n]].isResting}

\* the phases of a battle phase, from the choice of an attack to the end
\* phase it leads to
BattlePhases == {"battle", "guard", "drive_check", "close_step", "end"}

\* the step is the driver applying an ATTACK of the battle phase
AttackStep ==
    /\ party.phase = "battle" /\ pc = "play"
    /\ probe'.called /\ probe'.by = "driver"
    /\ probe'.action.type = "ATTACK"
    /\ probe'.pre = party
    /\ party'.phase = "guard"

\* C40: in a battle phase every ATTACK takes an unrested front-row unit of
\* the active player as attacker and rests it, and no other step of the
\* battle phase, up to and including its passage to the end phase, stands a
\* front-row unit of that player: the unrested front-row units, at most
\* three, become fewer with every attack, so that at most three attacks are
\* applied, one per front-row circle, and the battle phase ends
AttacksUseUpStandingUnits ==
    /\ [][AttackStep =>
            /\ probe'.action.attacker.name \in StandingFront(party)
            /\ StandingFront(party') = StandingFront(party) \ {probe'.action.attacker.name}]_vars
    /\ [][(~AttackStep /\ party.phase \in BattlePhases /\ party'.phase \in BattlePhases
            /\ party'.turn = party.turn)
            => StandingFront(party') \subseteq StandingFront(party)]_vars
    /\ [](Cardinality(StandingFront(party)) <= 3)

\* the second attack of a battle phase: a rear-guard attacks after the
\* vanguard, and no front-row unit of the attacking player is left standing
SecondAttackOfBattlePhase ==
    /\ pc = "play" /\ party.phase = "guard" /\ party.turn = 2
    /\ probe.called /\ probe.action.type = "ATTACK"
    /\ probe.action.attacker.name # "V"
    /\ party.cards[Active(party).board["V"]].isResting
    /\ StandingFront(party) = {}
    /\ StandingFront(probe.pre) = {probe.action.attacker.name}

====
